---- MODULE Spec2Model ----
(***************************************************************************)
(* Model of vinheria-estoque-simples-com-token/server.js: an Express app   *)
(* with an SQLite database (tables users and products), express-session    *)
(* with its default MemoryStore, bcryptjs password hashes and one shared   *)
(* access token read from the environment.                                 *)
(*                                                                         *)
(* JavaScript strings are sequences of one-character strings, so that      *)
(* trim(), toLowerCase() and Number() are computed and not assumed.        *)
(***************************************************************************)
EXTENDS Integers, Sequences, FiniteSets, Bags, TLC

VARIABLES
  expectedToken,  \* process.env.ACCESS_TOKEN, fixed when the process starts
  users,          \* table users: sequence of rows, row i has id i
  products,       \* table products: function id -> [name, quantity]
  productSeq,     \* sqlite_sequence of products: largest id ever assigned
  seedings,       \* history: number of starts that inserted the seed rows
  store,          \* MemoryStore: function sid -> [user, flash, expires]
  issued,         \* history: sid -> time of the login that bound the session
  loggedOut,      \* history: sids logged out, with no login answered since
  sidSeq,         \* number of session ids handed out so far
  now,            \* Date.now(), in milliseconds since the process started
  pending,        \* bag of requests suspended at an await (bcrypt.hash, bcrypt.compare)
  resp            \* the last request answered, its inputs and its outcome

vars == <<expectedToken, users, products, productSeq, seedings, store,
          issued, loggedOut, sidSeq, now, pending, resp>>

----------------------------------------------------------------------------
(* Bounds of the model                                                      *)

MaxProducts == 5     \* rows ever inserted into products (three are seeded)
MaxQuantity == 13    \* increments are not taken beyond this quantity
MaxSessions == 2     \* session ids ever stored
MaxTicks == 2        \* clock steps
MaxPending == 2      \* requests suspended at the same time
MaxRacing == 2       \* registrations suspended at the same time in a race
MaxStoredDigits == 9 \* integer digits of a quantity that is inserted

----------------------------------------------------------------------------
(* JavaScript values                                                        *)

\* a request field that is not present (req.body.x === undefined); it is no
\* string over Char, so it differs from every string a form can send
undefined == <<"undefined">>

\* the white space of String.prototype.trim and of Number(): TAB, LF, VT,
\* FF, CR, the space, U+00A0, U+1680 and U+FEFF
Whitespace == {" ", "\t", "\n", "\r", "\f", "", " ", " ", "﻿"}

Max(a, b) == IF a >= b THEN a ELSE b

\* the least and the greatest element of a set of integers that is not empty
Least(S) == CHOOSE i \in S : \A j \in S : i <= j

Greatest(S) == CHOOSE i \in S : \A j \in S : j <= i

\* String.prototype.trimStart
TrimLeft(s) ==
  LET keep == {i \in 1..Len(s) : s[i] \notin Whitespace}
  IN  IF keep = {} THEN <<>> ELSE SubSeq(s, Least(keep), Len(s))

\* String.prototype.trimEnd
TrimRight(s) ==
  LET keep == {i \in 1..Len(s) : s[i] \notin Whitespace}
  IN  IF keep = {} THEN <<>> ELSE SubSeq(s, 1, Greatest(keep))

\* String.prototype.trim
trim(s) == TrimRight(TrimLeft(s))

\* String.prototype.toLowerCase, with the case mappings and the properties
\* Cased and Case_Ignorable of Unicode 17, for every character that a string
\* of the model can hold. UpperLetters are the letters it changes, and
\* LowerLetters at the same position the letters it makes of them; a small
\* letter that a string of the model cannot hold is named by its code point
\* ("U+0253" is the small letter of "Ɓ").
UpperLetters ==
  <<"A", "B", "C", "D", "E", "F", "G", "H", "I", "J", "K", "L", "M", "N",
    "O", "P", "Q", "R", "S", "T", "U", "V", "W", "X", "Y", "Z", "À", "Á",
    "Â", "Ã", "Ä", "Å", "Æ", "Ç", "È", "É", "Ê", "Ë", "Ì", "Í", "Î", "Ï",
    "Ð", "Ñ", "Ò", "Ó", "Ô", "Õ", "Ö", "Ø", "Ù", "Ú", "Û", "Ü", "Ý", "Þ",
    "Ɓ", "Ƃ", "Ƅ", "Ɔ", "Ƈ", "Ɖ", "Ɗ", "Ƌ", "Ǝ", "Ə", "Ɛ", "Ƒ", "Ɠ", "Ɣ",
    "Ɩ", "Ɨ", "Ƙ", "Ɯ", "Ɲ", "Ɵ", "Ơ", "Ƣ", "Ƥ", "Ʀ", "Ƨ", "Ʃ", "Ƭ", "Ʈ",
    "Ư", "Ʊ", "Ʋ", "Ƴ", "Ƶ", "Ʒ", "Ƹ", "Ƽ", "Ǆ", "ǅ", "Ǉ", "ǈ", "Ǌ", "ǋ",
    "Ǎ", "Ǐ", "Ǒ", "Ǔ", "Ǖ", "Ǘ", "Ǚ", "Ǜ", "Ǟ", "Ǡ", "Ǣ", "Ǥ", "Ǧ", "Ǩ",
    "Ǫ", "Ǭ", "Ǯ", "Ǳ", "ǲ", "Ǵ", "Ƕ", "Ƿ", "Ǹ", "Ǻ", "Ǽ", "Ǿ", "Ά", "Έ",
    "Ή", "Ί", "Ό", "Ύ", "Ώ", "Α", "Β", "Γ", "Δ", "Ε", "Ζ", "Η", "Θ", "Ι",
    "Κ", "Λ", "Μ", "Ν", "Ξ", "Ο", "Π", "Ρ", "Σ", "Τ", "Υ", "Φ", "Χ", "Ψ",
    "Ω", "Ϊ", "Ϋ", "Ϗ", "Ϙ", "Ϛ", "Ϝ", "Ϟ", "Ϡ", "Ϣ", "Ϥ", "Ϧ", "Ϩ", "Ϫ",
    "Ϭ", "Ϯ", "ϴ", "Ϸ", "Ϲ", "Ϻ", "Ͻ", "Ͼ", "Ͽ", "Ҁ", "Ҋ", "Ҍ", "Ҏ", "Ґ",
    "Ғ", "Ҕ", "Җ", "Ҙ", "Қ", "Ҝ", "Ҟ", "Ҡ", "Ң", "Ҥ", "Ҧ", "Ҩ", "Ҫ", "Ҭ",
    "Ү", "Ұ", "Ҳ", "Ҵ", "Ҷ", "Ҹ", "Һ", "Ҽ", "Ҿ", "Ӏ", "Ӂ", "Ӄ", "Ӆ", "Ӈ",
    "Ӊ", "Ӌ", "Ӎ", "Ӑ", "Ӓ", "Ӕ", "Ӗ", "Ә", "Ӛ", "Ӝ", "Ӟ", "Ӡ", "Ӣ", "Ӥ",
    "Ӧ", "Ө", "Ӫ", "Ӭ", "Ӯ", "Ӱ", "Ӳ", "Ӵ", "Ӷ", "Ӹ", "Ӻ", "Ӽ", "Ӿ", "Ⴀ",
    "Ⴁ", "Ⴂ", "Ⴃ", "Ⴄ", "Ⴅ", "Ⴆ", "Ⴇ", "Ⴈ", "Ⴉ", "Ⴊ", "Ⴋ", "Ⴌ", "Ⴍ", "Ⴎ",
    "Ⴏ", "Ⴐ", "Ⴑ", "Ⴒ", "Ⴓ", "Ⴔ", "Ⴕ", "Ⴖ", "Ⴗ", "Ⴘ", "Ⴙ", "Ⴚ", "Ⴛ", "Ⴜ",
    "Ⴝ", "Ⴞ", "Ⴟ", "Ⴠ", "Ⴡ", "Ⴢ", "Ⴣ", "Ⴤ", "Ⴥ", "Ⴧ", "Ⴭ", "Ꭰ", "Ꭱ", "Ꭲ",
    "Ꭳ", "Ꭴ", "Ꭵ", "Ꭶ", "Ꭷ", "Ꭸ", "Ꭹ", "Ꭺ", "Ꭻ", "Ꭼ", "Ꭽ", "Ꭾ", "Ꭿ", "Ꮀ",
    "Ꮁ", "Ꮂ", "Ꮃ", "Ꮄ", "Ꮅ", "Ꮆ", "Ꮇ", "Ꮈ", "Ꮉ", "Ꮊ", "Ꮋ", "Ꮌ", "Ꮍ", "Ꮎ",
    "Ꮏ", "Ꮐ", "Ꮑ", "Ꮒ", "Ꮓ", "Ꮔ", "Ꮕ", "Ꮖ", "Ꮗ", "Ꮘ", "Ꮙ", "Ꮚ", "Ꮛ", "Ꮜ",
    "Ꮝ", "Ꮞ", "Ꮟ", "Ꮠ", "Ꮡ", "Ꮢ", "Ꮣ", "Ꮤ", "Ꮥ", "Ꮦ", "Ꮧ", "Ꮨ", "Ꮩ", "Ꮪ",
    "Ꮫ", "Ꮬ", "Ꮭ", "Ꮮ", "Ꮯ", "Ꮰ", "Ꮱ", "Ꮲ", "Ꮳ", "Ꮴ", "Ꮵ", "Ꮶ", "Ꮷ", "Ꮸ",
    "Ꮹ", "Ꮺ", "Ꮻ", "Ꮼ", "Ꮽ", "Ꮾ", "Ꮿ", "Ᏸ", "Ᏹ", "Ᏺ", "Ᏻ", "Ᏼ", "Ᏽ", "Ᲊ",
    "Ა", "Ბ", "Გ", "Დ", "Ე", "Ვ", "Ზ", "Თ", "Ი", "Კ", "Ლ", "Მ", "Ნ", "Ო",
    "Პ", "Ჟ", "Რ", "Ს", "Ტ", "Უ", "Ფ", "Ქ", "Ღ", "Ყ", "Შ", "Ჩ", "Ც", "Ძ",
    "Წ", "Ჭ", "Ხ", "Ჯ", "Ჰ", "Ჱ", "Ჲ", "Ჳ", "Ჴ", "Ჵ", "Ჶ", "Ჷ", "Ჸ", "Ჹ",
    "Ჺ", "Ჽ", "Ჾ", "Ჿ", "Ẁ", "Ẃ", "Ẅ", "Ẇ", "Ẉ", "Ẋ", "Ẍ", "Ẏ", "Ẑ", "Ẓ",
    "Ẕ", "ẞ", "Ạ", "Ả", "Ấ", "Ầ", "Ẩ", "Ẫ", "Ậ", "Ắ", "Ằ", "Ẳ", "Ẵ", "Ặ",
    "Ẹ", "Ẻ", "Ẽ", "Ế", "Ề", "Ể", "Ễ", "Ệ", "Ỉ", "Ị", "Ọ", "Ỏ", "Ố", "Ồ",
    "Ổ", "Ỗ", "Ộ", "Ớ", "Ờ", "Ở", "Ỡ", "Ợ", "Ụ", "Ủ", "Ứ", "Ừ", "Ử", "Ữ",
    "Ự", "Ỳ", "Ỵ", "Ỷ", "Ỹ", "Ỻ", "Ỽ", "Ỿ", "ᾈ", "ᾉ", "ᾊ", "ᾋ", "ᾌ", "ᾍ",
    "ᾎ", "ᾏ", "ᾘ", "ᾙ", "ᾚ", "ᾛ", "ᾜ", "ᾝ", "ᾞ", "ᾟ", "ᾨ", "ᾩ", "ᾪ", "ᾫ",
    "ᾬ", "ᾭ", "ᾮ", "ᾯ", "Ᾰ", "Ᾱ", "Ὰ", "Ά", "ᾼ", "Ὲ", "Έ", "Ὴ", "Ή", "ῌ",
    "Ῐ", "Ῑ", "Ὶ", "Ί", "Ῠ", "Ῡ", "Ὺ", "Ύ", "Ῥ", "Ὸ", "Ό", "Ὼ", "Ώ", "ῼ",
    "Ↄ", "Ⓐ", "Ⓑ", "Ⓒ", "Ⓓ", "Ⓔ", "Ⓕ", "Ⓖ", "Ⓗ", "Ⓘ", "Ⓙ", "Ⓚ", "Ⓛ", "Ⓜ",
    "Ⓝ", "Ⓞ", "Ⓟ", "Ⓠ", "Ⓡ", "Ⓢ", "Ⓣ", "Ⓤ", "Ⓥ", "Ⓦ", "Ⓧ", "Ⓨ", "Ⓩ", "Ⲁ",
    "Ⲃ", "Ⲅ", "Ⲇ", "Ⲉ", "Ⲋ", "Ⲍ", "Ⲏ", "Ⲑ", "Ⲓ", "Ⲕ", "Ⲗ", "Ⲙ", "Ⲛ", "Ⲝ",
    "Ⲟ", "Ⲡ", "Ⲣ", "Ⲥ", "Ⲧ", "Ⲩ", "Ⲫ", "Ⲭ", "Ⲯ", "Ⲱ", "Ⲳ", "Ⲵ", "Ⲷ", "Ⲹ",
    "Ⲻ", "Ⲽ", "Ⲿ", "Ⳁ", "Ⳃ", "Ⳅ", "Ⳇ", "Ⳉ", "Ⳋ", "Ⳍ", "Ⳏ", "Ⳑ", "Ⳓ", "Ⳕ",
    "Ⳗ", "Ⳙ", "Ⳛ", "Ⳝ", "Ⳟ", "Ⳡ", "Ⳣ", "Ⳬ", "Ⳮ", "Ⳳ", "Ꚁ", "Ꚃ", "Ꚅ", "Ꚇ",
    "Ꚉ", "Ꚋ", "Ꚍ", "Ꚏ", "Ꚑ", "Ꚓ", "Ꚕ", "Ꚗ", "Ꚙ", "Ꚛ", "Ꞁ", "Ꞃ", "Ꞅ", "Ꞇ",
    "Ꞌ", "Ɥ", "Ꞑ", "Ꞓ", "Ꞗ", "Ꞙ", "Ꞛ", "Ꞝ", "Ꞟ", "Ꞡ", "Ꞣ", "Ꞥ", "Ꞧ", "Ꞩ",
    "Ɦ", "Ɜ", "Ɡ", "Ɬ", "Ɪ", "Ʞ", "Ʇ", "Ʝ", "Ꭓ", "Ꞵ", "Ꞷ", "Ꞹ", "Ꞻ", "Ꞽ",
    "Ꞿ", "Ꟁ", "Ꟃ", "Ꞔ", "Ʂ", "Ᶎ", "Ꟈ", "Ꟊ", "Ɤ", "Ꟍ", "꟎", "Ꟑ", "꟒", "꟔",
    "Ꟗ", "Ꟙ", "Ꟛ", "Ƛ", "Ꟶ">>

LowerLetters ==
  <<"a", "b", "c", "d", "e", "f", "g", "h", "i", "j", "k", "l", "m", "n",
    "o", "p", "q", "r", "s", "t", "u", "v", "w", "x", "y", "z", "à", "á",
    "â", "ã", "ä", "å", "æ", "ç", "è", "é", "ê", "ë", "ì", "í", "î", "ï",
    "ð", "ñ", "ò", "ó", "ô", "õ", "ö", "ø", "ù", "ú", "û", "ü", "ý", "þ",
    "U+0253", "ƃ", "ƅ", "U+0254", "ƈ", "U+0256", "U+0257", "ƌ", "ǝ",
    "U+0259", "U+025B", "ƒ", "U+0260", "U+0263", "U+0269", "U+0268", "ƙ",
    "U+026F", "U+0272", "U+0275", "ơ", "ƣ", "ƥ", "ʀ", "ƨ", "ʃ", "ƭ", "ʈ",
    "ư", "ʊ", "ʋ", "ƴ", "ƶ", "ʒ", "ƹ", "ƽ", "ǆ", "ǆ", "ǉ", "ǉ", "ǌ", "ǌ",
    "ǎ", "ǐ", "ǒ", "ǔ", "ǖ", "ǘ", "ǚ", "ǜ", "ǟ", "ǡ", "ǣ", "ǥ", "ǧ", "ǩ",
    "ǫ", "ǭ", "ǯ", "ǳ", "ǳ", "ǵ", "ƕ", "ƿ", "ǹ", "ǻ", "ǽ", "ǿ", "ά", "έ",
    "ή", "ί", "ό", "ύ", "ώ", "α", "β", "γ", "δ", "ε", "ζ", "η", "θ", "ι",
    "κ", "λ", "μ", "ν", "ξ", "ο", "π", "ρ", "σ", "τ", "υ", "φ", "χ", "ψ",
    "ω", "ϊ", "ϋ", "ϗ", "ϙ", "ϛ", "ϝ", "ϟ", "ϡ", "ϣ", "ϥ", "ϧ", "ϩ", "ϫ",
    "ϭ", "ϯ", "θ", "ϸ", "ϲ", "ϻ", "U+037B", "U+037C", "U+037D", "ҁ", "ҋ",
    "ҍ", "ҏ", "ґ", "ғ", "ҕ", "җ", "ҙ", "қ", "ҝ", "ҟ", "ҡ", "ң", "ҥ", "ҧ",
    "ҩ", "ҫ", "ҭ", "ү", "ұ", "ҳ", "ҵ", "ҷ", "ҹ", "һ", "ҽ", "ҿ", "ӏ", "ӂ",
    "ӄ", "ӆ", "ӈ", "ӊ", "ӌ", "ӎ", "ӑ", "ӓ", "ӕ", "ӗ", "ә", "ӛ", "ӝ", "ӟ",
    "ӡ", "ӣ", "ӥ", "ӧ", "ө", "ӫ", "ӭ", "ӯ", "ӱ", "ӳ", "ӵ", "ӷ", "ӹ", "ӻ",
    "ӽ", "ӿ", "U+2D00", "U+2D01", "U+2D02", "U+2D03", "U+2D04", "U+2D05",
    "U+2D06", "U+2D07", "U+2D08", "U+2D09", "U+2D0A", "U+2D0B", "U+2D0C",
    "U+2D0D", "U+2D0E", "U+2D0F", "U+2D10", "U+2D11", "U+2D12", "U+2D13",
    "U+2D14", "U+2D15", "U+2D16", "U+2D17", "U+2D18", "U+2D19", "U+2D1A",
    "U+2D1B", "U+2D1C", "U+2D1D", "U+2D1E", "U+2D1F", "U+2D20", "U+2D21",
    "U+2D22", "U+2D23", "U+2D24", "U+2D25", "U+2D27", "U+2D2D", "U+AB70",
    "U+AB71", "U+AB72", "U+AB73", "U+AB74", "U+AB75", "U+AB76", "U+AB77",
    "U+AB78", "U+AB79", "U+AB7A", "U+AB7B", "U+AB7C", "U+AB7D", "U+AB7E",
    "U+AB7F", "ꮀ", "ꮁ", "ꮂ", "ꮃ", "ꮄ", "ꮅ", "ꮆ", "ꮇ", "ꮈ", "ꮉ", "ꮊ", "ꮋ",
    "ꮌ", "ꮍ", "ꮎ", "ꮏ", "ꮐ", "ꮑ", "ꮒ", "ꮓ", "ꮔ", "ꮕ", "ꮖ", "ꮗ", "ꮘ", "ꮙ",
    "ꮚ", "ꮛ", "ꮜ", "ꮝ", "ꮞ", "ꮟ", "ꮠ", "ꮡ", "ꮢ", "ꮣ", "ꮤ", "ꮥ", "ꮦ", "ꮧ",
    "ꮨ", "ꮩ", "ꮪ", "ꮫ", "ꮬ", "ꮭ", "ꮮ", "ꮯ", "ꮰ", "ꮱ", "ꮲ", "ꮳ", "ꮴ", "ꮵ",
    "ꮶ", "ꮷ", "ꮸ", "ꮹ", "ꮺ", "ꮻ", "ꮼ", "ꮽ", "ꮾ", "ꮿ", "ᏸ", "ᏹ", "ᏺ", "ᏻ",
    "ᏼ", "ᏽ", "ᲊ", "ა", "ბ", "გ", "დ", "ე", "ვ", "ზ", "თ", "ი", "კ", "ლ",
    "მ", "ნ", "ო", "პ", "ჟ", "რ", "ს", "ტ", "უ", "ფ", "ქ", "ღ", "ყ", "შ",
    "ჩ", "ც", "ძ", "წ", "ჭ", "ხ", "ჯ", "ჰ", "ჱ", "ჲ", "ჳ", "ჴ", "ჵ", "ჶ",
    "ჷ", "ჸ", "ჹ", "ჺ", "ჽ", "ჾ", "ჿ", "ẁ", "ẃ", "ẅ", "ẇ", "ẉ", "ẋ", "ẍ",
    "ẏ", "ẑ", "ẓ", "ẕ", "ß", "ạ", "ả", "ấ", "ầ", "ẩ", "ẫ", "ậ", "ắ", "ằ",
    "ẳ", "ẵ", "ặ", "ẹ", "ẻ", "ẽ", "ế", "ề", "ể", "ễ", "ệ", "ỉ", "ị", "ọ",
    "ỏ", "ố", "ồ", "ổ", "ỗ", "ộ", "ớ", "ờ", "ở", "ỡ", "ợ", "ụ", "ủ", "ứ",
    "ừ", "ử", "ữ", "ự", "ỳ", "ỵ", "ỷ", "ỹ", "ỻ", "ỽ", "ỿ", "ᾀ", "ᾁ", "ᾂ",
    "ᾃ", "ᾄ", "ᾅ", "ᾆ", "ᾇ", "ᾐ", "ᾑ", "ᾒ", "ᾓ", "ᾔ", "ᾕ", "ᾖ", "ᾗ", "ᾠ",
    "ᾡ", "ᾢ", "ᾣ", "ᾤ", "ᾥ", "ᾦ", "ᾧ", "ᾰ", "ᾱ", "U+1F70", "U+1F71", "ᾳ",
    "U+1F72", "U+1F73", "U+1F74", "U+1F75", "ῃ", "ῐ", "ῑ", "U+1F76",
    "U+1F77", "ῠ", "ῡ", "U+1F7A", "U+1F7B", "ῥ", "U+1F78", "U+1F79",
    "U+1F7C", "U+1F7D", "ῳ", "ↄ", "ⓐ", "ⓑ", "ⓒ", "ⓓ", "ⓔ", "ⓕ", "ⓖ", "ⓗ",
    "ⓘ", "ⓙ", "ⓚ", "ⓛ", "ⓜ", "ⓝ", "ⓞ", "ⓟ", "ⓠ", "ⓡ", "ⓢ", "ⓣ", "ⓤ", "ⓥ",
    "ⓦ", "ⓧ", "ⓨ", "ⓩ", "ⲁ", "ⲃ", "ⲅ", "ⲇ", "ⲉ", "ⲋ", "ⲍ", "ⲏ", "ⲑ", "ⲓ",
    "ⲕ", "ⲗ", "ⲙ", "ⲛ", "ⲝ", "ⲟ", "ⲡ", "ⲣ", "ⲥ", "ⲧ", "ⲩ", "ⲫ", "ⲭ", "ⲯ",
    "ⲱ", "ⲳ", "ⲵ", "ⲷ", "ⲹ", "ⲻ", "ⲽ", "ⲿ", "ⳁ", "ⳃ", "ⳅ", "ⳇ", "ⳉ", "ⳋ",
    "ⳍ", "ⳏ", "ⳑ", "ⳓ", "ⳕ", "ⳗ", "ⳙ", "ⳛ", "ⳝ", "ⳟ", "ⳡ", "ⳣ", "ⳬ", "ⳮ",
    "ⳳ", "ꚁ", "ꚃ", "ꚅ", "ꚇ", "ꚉ", "ꚋ", "ꚍ", "ꚏ", "ꚑ", "ꚓ", "ꚕ", "ꚗ", "ꚙ",
    "ꚛ", "ꞁ", "ꞃ", "ꞅ", "ꞇ", "ꞌ", "U+0265", "ꞑ", "ꞓ", "ꞗ", "ꞙ", "ꞛ", "ꞝ",
    "ꞟ", "ꞡ", "ꞣ", "ꞥ", "ꞧ", "ꞩ", "U+0266", "U+025C", "U+0261", "U+026C",
    "U+026A", "ʞ", "ʇ", "ʝ", "U+AB53", "ꞵ", "ꞷ", "ꞹ", "ꞻ", "ꞽ", "ꞿ", "ꟁ",
    "ꟃ", "ꞔ", "ʂ", "ᶎ", "ꟈ", "ꟊ", "U+0264", "ꟍ", "꟏", "ꟑ", "ꟓ", "ꟕ", "ꟗ",
    "ꟙ", "ꟛ", "ƛ", "ꟶ">>

Uppers == {UpperLetters[i] : i \in DOMAIN UpperLetters}

LowerChar(c) ==
  IF c \in Uppers
  THEN LowerLetters[CHOOSE i \in DOMAIN UpperLetters : UpperLetters[i] = c]
  ELSE c

\* the characters with a case that are no letters of the two lists. A
\* character that has a case and is ignored as well (a modifier letter, the
\* combining iota) is in CaseIgnorable only: toLowerCase skips it before it
\* asks for its case.
OtherCased ==
  {"ª", "µ", "º", "ÿ", "ƀ", "ƍ", "ƚ", "ƞ", "ƪ", "ƫ", "ƺ", "ƾ", "ǰ", "ʁ", "ʄ",
   "ʅ", "ʆ", "ʉ", "ʌ", "ʍ", "ʎ", "ʏ", "ʐ", "ʑ", "ʓ", "ʖ", "ʗ", "ʘ", "ʙ", "ʚ",
   "ʛ", "ʜ", "ʟ", "ʠ", "ʡ", "ʢ", "ʣ", "ʤ", "ʥ", "ʦ", "ʧ", "ʨ", "ʩ", "ʪ", "ʫ",
   "ʬ", "ʭ", "ʮ", "ʯ", "ΐ", "ΰ", "ς", "ϐ", "ϑ", "ϒ", "ϓ", "ϔ", "ϕ", "ϖ", "ϰ",
   "ϱ", "ϳ", "ϵ", "ϼ", "ր", "ց", "ւ", "փ", "ք", "օ", "ֆ", "և", "ֈ", "ᲀ", "ᲁ",
   "ᲂ", "ᲃ", "ᲄ", "ᲅ", "ᲆ", "ᲇ", "ᲈ", "ᶀ", "ᶁ", "ᶂ", "ᶃ", "ᶄ", "ᶅ", "ᶆ", "ᶇ",
   "ᶈ", "ᶉ", "ᶊ", "ᶋ", "ᶌ", "ᶍ", "ᶏ", "ᶐ", "ᶑ", "ᶒ", "ᶓ", "ᶔ", "ᶕ", "ᶖ", "ᶗ",
   "ᶘ", "ᶙ", "ᶚ", "ẖ", "ẗ", "ẘ", "ẙ", "ẚ", "ẛ", "ẜ", "ẝ", "ẟ", "ᾲ", "ᾴ", "ᾶ",
   "ᾷ", "ι", "ῂ", "ῄ", "ῆ", "ῇ", "ῒ", "ΐ", "ῖ", "ῗ", "ῢ", "ΰ", "ῤ", "ῦ", "ῧ",
   "ῲ", "ῴ", "ῶ", "ῷ", "ⳤ", "ꞎ", "ꞕ", "ꞯ", "ꟺ"}

Cased ==
  Uppers \cup {LowerLetters[i] : i \in DOMAIN LowerLetters} \cup OtherCased

\* the characters toLowerCase skips when it looks for a cased letter around
\* a capital sigma
CaseIgnorable ==
  {"'", ".", ":", "^", "¨", "­", "¯", "´", "·", "¸", "ʰ", "ʱ", "ʲ", "ʳ", "ʴ",
   "ʵ", "ʶ", "ʷ", "ʸ", "ʹ", "ʺ", "ʻ", "ʼ", "ʽ", "ʾ", "ʿ", "ˀ", "ˁ", "˂", "˃",
   "˄", "˅", "ˆ", "ˇ", "ˈ", "ˉ", "ˊ", "ˋ", "ˌ", "ˍ", "ˎ", "ˏ", "ː", "ˑ", "˒",
   "˓", "˔", "˕", "˖", "˗", "˘", "˙", "˚", "˛", "˜", "˝", "˞", "˟", "ˠ", "ˡ",
   "ˢ", "ˣ", "ˤ", "˥", "˦", "˧", "˨", "˩", "˪", "˫", "ˬ", "˭", "ˮ", "˯", "˰",
   "˱", "˲", "˳", "˴", "˵", "˶", "˷", "˸", "˹", "˺", "˻", "˼", "˽", "˾", "˿",
   "΄", "΅", "·", "҃", "҄", "҅", "҆", "҇", "҈", "҉", "֑", "֒", "֓", "֔", "֕",
   "֖", "֗", "֘", "֙", "֚", "֛", "֜", "֝", "֞", "֟", "֠", "֡", "֢", "֣", "֤",
   "֥", "֦", "֧", "֨", "֩", "֪", "֫", "֬", "֭", "֮", "֯", "ְ", "ֱ", "ֲ", "ֳ",
   "ִ", "ֵ", "ֶ", "ַ", "ָ", "ֹ", "ֺ", "ֻ", "ּ", "ֽ", "ֿ", "ׁ", "ׂ", "ׄ", "ׅ",
   "ׇ", "״", "ۖ", "ۗ", "ۘ", "ۙ", "ۚ", "ۛ", "ۜ", "۝", "۟", "۠", "ۡ", "ۢ", "ۣ",
   "ۤ", "ۥ", "ۦ", "ۧ", "ۨ", "۪", "۫", "۬", "ۭ", "ަ", "ާ", "ި", "ީ", "ު", "ޫ",
   "ެ", "ޭ", "ޮ", "ޯ", "ް", "߫", "߬", "߭", "߮", "߯", "߰", "߱", "߲", "߳", "ߴ",
   "ߵ", "ߺ", "߽", "࢈", "࢐", "࢑", "ࢗ", "࢘", "࢙", "࢚", "࢛", "࢜", "࢝", "࢞", "࢟",
   "ࣉ", "࣊", "࣋", "࣌", "࣍", "࣎", "࣏", "࣐", "࣑", "࣒", "࣓", "ࣔ", "ࣕ", "ࣖ", "ࣗ",
   "ࣘ", "ࣙ", "ࣚ", "ࣛ", "ࣜ", "ࣝ", "ࣞ", "ࣟ", "࣠", "࣡", "࣢", "ࣣ", "ࣤ", "ࣥ", "ࣦ",
   "ࣧ", "ࣨ", "ࣩ", "࣪", "࣫", "࣬", "࣭", "࣮", "࣯", "ࣰ", "ࣱ", "ࣲ", "ࣳ", "ࣴ", "ࣵ",
   "ࣶ", "ࣷ", "ࣸ", "ࣹ", "ࣺ", "ࣻ", "ࣼ", "ࣽ", "ࣾ", "ࣿ", "ঁ", "়", "ু", "ূ", "ৃ",
   "ৄ", "্", "ৢ", "ৣ", "৾", "ઁ", "ં", "઼", "ુ", "ૂ", "ૃ", "ૄ", "ૅ", "ે", "ૈ",
   "્", "ૢ", "ૣ", "ૺ", "ૻ", "ૼ", "૽", "૾", "૿", "ஂ", "ீ", "்", "ಁ", "಼", "ಿ",
   "ೆ", "ೌ", "್", "ೢ", "ೣ", "ඁ", "්", "ි", "ී", "ු", "ූ", "ັ", "ິ", "ີ", "ຶ",
   "ື", "ຸ", "ູ", "຺", "ົ", "ຼ", "ໆ", "່", "້", "໊", "໋", "໌", "ໍ", "໎", "ྀ",
   "ཱྀ", "ྂ", "ྃ", "྄", "྆", "྇", "ྍ", "ྎ", "ྏ", "ྐ", "ྑ", "ྒ", "ྒྷ", "ྔ", "ྕ",
   "ྖ", "ྗ", "ྙ", "ྚ", "ྛ", "ྜ", "ྜྷ", "ྞ", "ྟ", "ྠ", "ྡ", "ྡྷ", "ྣ", "ྤ", "ྥ",
   "ྦ", "ྦྷ", "ྨ", "ྩ", "ྪ", "ྫ", "ྫྷ", "ྭ", "ྮ", "ྯ", "ྰ", "ྱ", "ྲ", "ླ", "ྴ",
   "ྵ", "ྶ", "ྷ", "ྸ", "ྐྵ", "ྺ", "ྻ", "ྼ", "࿆", "ႂ", "ႅ", "ႆ", "ႍ", "ႝ", "ჼ",
   "឴", "឵", "ិ", "ី", "ឹ", "ឺ", "ុ", "ូ", "ួ", "ំ", "៉", "៊", "់", "៌", "៍",
   "៎", "៏", "័", "៑", "្", "៓", "ៗ", "៝", "ᢅ", "ᢆ", "ᢩ", "ᪧ", "᪰", "᪱", "᪲",
   "᪳", "᪴", "᪵", "᪶", "᪷", "᪸", "᪹", "᪺", "᪻", "᪼", "᪽", "᪾", "ᪿ", "ᫀ", "᫁",
   "᫂", "᫃", "᫄", "᫅", "᫆", "᫇", "᫈", "᫉", "᫊", "᫋", "ᫌ", "ᫍ", "ᫎ", "᫏", "᫐",
   "᫑", "᫒", "᫓", "᫔", "᫕", "᫖", "᫗", "᫘", "᫙", "᫚", "᫛", "᫜", "᫝", "᫠", "᫡",
   "᫢", "᫣", "᫤", "᫥", "᫦", "᫧", "᫨", "᫩", "᫪", "᫫", "ᮀ", "ᮁ", "ᮢ", "ᮣ", "ᮤ",
   "ᮥ", "ᮨ", "ᮩ", "᮫", "ᮬ", "ᮭ", "᯦", "ᯨ", "ᯩ", "ᯭ", "ᯯ", "ᯰ", "ᯱ", "᳐", "᳑",
   "᳒", "᳔", "᳕", "᳖", "᳗", "᳘", "᳙", "᳚", "᳛", "᳜", "᳝", "᳞", "᳟", "᳠", "᳢",
   "᳣", "᳤", "᳥", "᳦", "᳧", "᳨", "᳭", "᳴", "᳸", "᳹", "ᶛ", "ᶜ", "ᶝ", "ᶞ", "ᶟ",
   "ᶠ", "ᶡ", "ᶢ", "ᶣ", "ᶤ", "ᶥ", "ᶦ", "ᶧ", "ᶨ", "ᶩ", "ᶪ", "ᶫ", "ᶬ", "ᶭ", "ᶮ",
   "ᶯ", "ᶰ", "ᶱ", "ᶲ", "ᶳ", "ᶴ", "ᶵ", "ᶶ", "ᶷ", "ᶸ", "ᶹ", "ᶺ", "ᶻ", "ᶼ", "ᶽ",
   "ᶾ", "ᶿ", "᷀", "᷁", "᷂", "᷃", "᷄", "᷅", "᷆", "᷇", "᷈", "᷉", "᷊", "᷋", "᷌",
   "᷍", "᷎", "᷏", "᷐", "᷑", "᷒", "ᷓ", "ᷔ", "ᷕ", "ᷖ", "ᷗ", "ᷘ", "ᷙ", "ᷚ", "ᷛ",
   "ᷜ", "ᷝ", "ᷞ", "ᷟ", "ᷠ", "ᷡ", "ᷢ", "ᷣ", "ᷤ", "ᷥ", "ᷦ", "ᷧ", "ᷨ", "ᷩ", "ᷪ",
   "ᷫ", "ᷬ", "ᷭ", "ᷮ", "ᷯ", "ᷰ", "ᷱ", "ᷲ", "ᷳ", "ᷴ", "᷵", "᷶", "᷷", "᷸", "᷹",
   "᷺", "᷻", "᷼", "᷽", "᷾", "᷿", "᾽", "᾿", "῀", "῁", "῍", "῎", "῏", "῝", "῞",
   "῟", "῭", "΅", "`", "´", "῾", "ₐ", "ₑ", "ₒ", "ₓ", "ₔ", "ₕ", "ₖ", "ₗ", "ₘ",
   "ₙ", "ₚ", "ₛ", "ₜ", "⃐", "⃑", "⃒", "⃓", "⃔", "⃕", "⃖", "⃗", "⃘", "⃙", "⃚",
   "⃛", "⃜", "⃝", "⃞", "⃟", "⃠", "⃡", "⃢", "⃣", "⃤", "⃥", "⃦", "⃧", "⃨", "⃩",
   "⃪", "⃫", "⃬", "⃭", "⃮", "⃯", "⃰", "⳯", "⳰", "⳱", "ⷠ", "ⷡ", "ⷢ", "ⷣ", "ⷤ",
   "ⷥ", "ⷦ", "ⷧ", "ⷨ", "ⷩ", "ⷪ", "ⷫ", "ⷬ", "ⷭ", "ⷮ", "ⷯ", "ⷰ", "ⷱ", "ⷲ", "ⷳ",
   "ⷴ", "ⷵ", "ⷶ", "ⷷ", "ⷸ", "ⷹ", "ⷺ", "ⷻ", "ⷼ", "ⷽ", "ⷾ", "ⷿ", "゙", "゚", "゛",
   "゜", "ゝ", "ゞ", "ー", "ヽ", "ヾ", "ꓸ", "ꓹ", "ꓺ", "ꓻ", "ꓼ", "ꓽ", "ꚜ", "ꚝ", "ꚞ",
   "ꚟ", "꛰", "꛱", "ꞈ", "꞉", "꞊", "꟱", "ꟲ", "ꟳ", "ꟴ", "ꟸ", "ꟹ", "꣄", "ꣅ", "꣠",
   "꣡", "꣢", "꣣", "꣤", "꣥", "꣦", "꣧", "꣨", "꣩", "꣪", "꣫", "꣬", "꣭", "꣮", "꣯",
   "꣰", "꣱", "ꣿ", "ꦀ", "ꦁ", "ꦂ", "꦳", "ꦶ", "ꦷ", "ꦸ", "ꦹ", "ꦼ", "ꦽ", "ꧏ", "ꧥ",
   "ꧦ", "ꪰ", "ꪲ", "ꪳ", "ꪴ", "ꪷ", "ꪸ", "ꪾ", "꪿", "꫁", "ꫝ", "ꫬ", "ꫭ", "ꫳ", "ꫴ",
   "꫶", "ꯥ", "ꯨ", "꯭", "﮲", "﮳", "﮴", "﮵", "﮶", "﮷", "﮸", "﮹", "﮺", "﮻", "﮼",
   "﮽", "﮾", "﮿", "﯀", "﯁", "﯂", "﻿", "ﾞ", "ﾟ", "￣", "￹", "￺", "￻"}

\* the capital sigma at position i of s ends a word: the nearest character
\* before it that is not skipped is cased, and the nearest one after it, if
\* there is one, is not
FinalSigma(s, i) ==
  /\ \E j \in 1..(i - 1) :
       s[j] \in Cased /\ \A t \in (j + 1)..(i - 1) : s[t] \in CaseIgnorable
  /\ ~\E j \in (i + 1)..Len(s) :
        s[j] \in Cased /\ \A t \in (i + 1)..(j - 1) : s[t] \in CaseIgnorable

toLowerCase(s) ==
  SubSeq([i \in 1..Len(s) |->
            IF s[i] = "Σ" /\ FinalSigma(s, i) THEN "ς" ELSE LowerChar(s[i])],
         1, Len(s))

\* email.trim().toLowerCase()
NormalizeEmail(email) == toLowerCase(trim(email))

Digits == {"0", "1", "2", "3", "4", "5", "6", "7", "8", "9"}

DigitValue(c) ==
  CASE c = "0" -> 0 [] c = "1" -> 1 [] c = "2" -> 2 [] c = "3" -> 3
    [] c = "4" -> 4 [] c = "5" -> 5 [] c = "6" -> 6 [] c = "7" -> 7
    [] c = "8" -> 8 [] c = "9" -> 9

\* the value of at most nine digits
RECURSIVE DecimalValue(_)
DecimalValue(s) ==
  IF s = <<>> THEN 0
  ELSE 10 * DecimalValue(SubSeq(s, 1, Len(s) - 1)) + DigitValue(s[Len(s)])

AllDigits(s) == s # <<>> /\ \A i \in 1..Len(s) : s[i] \in Digits

DigitChar(v) ==
  CASE v = 0 -> "0" [] v = 1 -> "1" [] v = 2 -> "2" [] v = 3 -> "3"
    [] v = 4 -> "4" [] v = 5 -> "5" [] v = 6 -> "6" [] v = 7 -> "7"
    [] v = 8 -> "8" [] v = 9 -> "9"

\* the digits of a 0x, 0o or 0b literal, by the bits a digit stands for
RadixDigits(bits) ==
  CASE bits = 4 -> Digits \cup {"a", "b", "c", "d", "e", "f",
                                "A", "B", "C", "D", "E", "F"}
    [] bits = 3 -> {"0", "1", "2", "3", "4", "5", "6", "7"}
    [] bits = 1 -> {"0", "1"}

RadixDigitValue(c) ==
  CASE c \in Digits -> DigitValue(c)
    [] c \in {"a", "A"} -> 10 [] c \in {"b", "B"} -> 11
    [] c \in {"c", "C"} -> 12 [] c \in {"d", "D"} -> 13
    [] c \in {"e", "E"} -> 14 [] c \in {"f", "F"} -> 15

----------------------------------------------------------------------------
(* IEEE 754 doubles                                                         *)
(* A number of the code is a double. Every finite double is a decimal of    *)
(* finitely many digits, and the model computes with these decimals, digit  *)
(* by digit, so that no value is cut to the width of an integer of the      *)
(* model.                                                                   *)

DigitValues(s) == SubSeq([i \in 1..Len(s) |-> DigitValue(s[i])], 1, Len(s))

DigitChars(d) == SubSeq([i \in 1..Len(d) |-> DigitChar(d[i])], 1, Len(d))

\* a decimal: the natural number with the digits d (no leading zero, none
\* for 0) divided by ten to the power s; its last digit is no zero when s > 0
Decimal(d, s) ==
  LET nz == {i \in 1..Len(d) : d[i] # 0}
      first == Least(nz)
      last == Max(Greatest(nz), Len(d) - s)
  IN  IF nz = {} THEN [d |-> <<>>, s |-> 0]
      ELSE [d |-> SubSeq(d, first, last), s |-> s - (Len(d) - last)]

Zero == [d |-> <<>>, s |-> 0]

\* the digits before the point of a decimal
IntDigits(x) == SubSeq(x.d, 1, Len(x.d) - x.s)

\* the digits after the point of a decimal
FracDigits(x) ==
  IF Len(x.d) >= x.s THEN SubSeq(x.d, Len(x.d) - x.s + 1, Len(x.d))
  ELSE [i \in 1..(x.s - Len(x.d)) |-> 0] \o x.d

\* 2 * x: the carry into a digit is 1 when the digit after it is 5 or more
Twice(x) ==
  LET n == Len(x.d)
      body == SubSeq([i \in 1..n |->
                        ((2 * x.d[i]) % 10)
                          + (IF i < n /\ x.d[i + 1] >= 5 THEN 1 ELSE 0)],
                     1, n)
      all == IF n > 0 /\ x.d[1] >= 5 THEN <<1>> \o body ELSE body
  IN  IF x.s > 0 /\ all[Len(all)] = 0
      THEN [d |-> SubSeq(all, 1, Len(all) - 1), s |-> x.s - 1]
      ELSE [d |-> all, s |-> x.s]

\* x / 2: a digit takes ten more when the digit before it is odd
Half(x) ==
  LET d0 == x.d \o <<0>>
      n == Len(d0)
      out == SubSeq([i \in 1..n |->
                       (d0[i] + (IF i > 1 /\ d0[i - 1] % 2 = 1 THEN 10 ELSE 0))
                         \div 2],
                    1, n)
      lead == IF out[1] = 0 THEN 1 ELSE 0
      trail == IF out[n] = 0 THEN 1 ELSE 0
  IN  [d |-> SubSeq(out, 1 + lead, n - trail), s |-> x.s + 1 - trail]

\* the half of k that is nearer to 0
Part(k) == IF k > 0 THEN k \div 2 ELSE 0 - ((0 - k) \div 2)

\* x times 2 to the power k, one half of the steps after the other
RECURSIVE Scale(_, _)
RECURSIVE ScaleOn(_, _)
Scale(x, k) ==
  CASE x.d = <<>> \/ k = 0 -> x
    [] x.d # <<>> /\ k = 1 -> Twice(x)
    [] x.d # <<>> /\ k = -1 -> Half(x)
    [] OTHER -> ScaleOn(Scale(x, Part(k)), k - Part(k))

\* the steps that are left, from the value y the first half has reached
ScaleOn(y, k) == IF y.d = <<>> THEN y ELSE Scale(y, k)

\* a < b for natural numbers given by their digits
LessNat(a, b) ==
  \/ Len(a) < Len(b)
  \/ /\ Len(a) = Len(b)
     /\ \E i \in 1..Len(a) :
          a[i] < b[i] /\ \A j \in 1..(i - 1) : a[j] = b[j]

\* a + 1 for a natural number given by its digits
IncNat(a) ==
  LET n == Len(a)
      low == {i \in 1..n : a[i] # 9}
  IN  IF low = {} THEN <<1>> \o [i \in 1..n |-> 0]
      ELSE SubSeq([i \in 1..n |->
                     IF i < Greatest(low) THEN a[i]
                     ELSE IF i = Greatest(low) THEN a[i] + 1 ELSE 0],
                  1, n)

\* a - 1 for a natural number a > 0 given by its digits
DecNat(a) ==
  LET n == Len(a)
      p == Greatest({i \in 1..n : a[i] # 0})
      out == SubSeq([i \in 1..n |->
                       IF i < p THEN a[i] ELSE IF i = p THEN a[i] - 1 ELSE 9],
                    1, n)
  IN  IF out[1] = 0 THEN Tail(out) ELSE out

\* a + b for natural numbers given by their digits: a digit gets a carry
\* when a later column makes one and every column between passes it on
AddNat(a, b) ==
  LET n == Max(Len(a), Len(b))
      column(i) ==
        (IF i > n - Len(a) THEN a[i - (n - Len(a))] ELSE 0)
          + (IF i > n - Len(b) THEN b[i - (n - Len(b))] ELSE 0)
      carry(i) ==
        \E j \in (i + 1)..n :
          column(j) >= 10 /\ \A t \in (i + 1)..(j - 1) : column(t) = 9
      body == SubSeq([i \in 1..n |->
                        (column(i) + (IF carry(i) THEN 1 ELSE 0)) % 10],
                     1, n)
  IN  IF carry(0) THEN <<1>> \o body ELSE body

\* the integer nearest to a decimal, the even one of two that are as near
RoundHalfEven(y) ==
  LET int == IntDigits(y)
      frac == FracDigits(y)
      up == /\ frac # <<>>
            /\ \/ frac[1] > 5
               \/ frac[1] = 5 /\ Len(frac) > 1
               \/ frac[1] = 5 /\ int # <<>> /\ int[Len(int)] % 2 = 1
  IN  IF up THEN IncNat(int) ELSE int

\* an integer that is not below the logarithm to base 2 of a decimal x > 0,
\* and at most five above it
Log2Above(x) ==
  LET e10 == Len(x.d) - x.s
  IN  IF e10 >= 0 THEN (e10 * 3321929) \div 1000000 + 1
      ELSE 0 - (((0 - e10) * 3321928) \div 1000000)

\* the power of 2 that brings a decimal x > 0 below 2^53, at most the 1074
\* of the subnormal doubles
Exponent(x) == 0 - Max(Log2Above(x) - 52, -1074)

\* doubles y, which is x * 2^k, until it is 2^52 = 4503599627370496 or more
\* or k is 1074
RECURSIVE Normalized(_, _)
Normalized(y, k) ==
  IF k < 1074
     /\ LessNat(IntDigits(y), <<4, 5, 0, 3, 5, 9, 9, 6, 2, 7, 3, 7, 0, 4, 9, 6>>)
  THEN Normalized(Twice(y), k + 1)
  ELSE [y |-> y, k |-> k]

\* an integer below 10^15
SmallInteger(y) == y.s = 0 /\ Len(y.d) <= 15

\* a decimal x > 0 that is a double for the plain reason that it is an
\* integer below 10^15 divided by a small power of 2
PlainDouble(x) == x.s <= 30 /\ SmallInteger(Scale(x, x.s))

\* the double m / 2^k for an integer m of at most 53 bits, where m can be
\* 2^53 = 9007199254740992 after rounding: inf when it is beyond the
\* greatest double, else the decimal v it is exactly
Double(m, k) ==
  IF \/ k < -971
     \/ k = -971 /\ m = <<9, 0, 0, 7, 1, 9, 9, 2, 5, 4, 7, 4, 0, 9, 9, 2>>
  THEN [inf |-> TRUE, v |-> Zero]
  ELSE [inf |-> FALSE, v |-> Scale(Decimal(m, 0), 0 - k)]

\* the double nearest to n.y / 2^(n.k)
Nearest(n) == Double(RoundHalfEven(n.y), n.k)

\* the double nearest to a decimal x >= 0 (the even one of two that are as
\* near): inf when it is infinite, else the decimal v it is exactly
ToDouble(x) ==
  IF x.d = <<>> \/ Len(x.d) - x.s < -324 THEN [inf |-> FALSE, v |-> Zero]
  ELSE IF Len(x.d) - x.s > 309 THEN [inf |-> TRUE, v |-> Zero]
  ELSE IF PlainDouble(x) THEN [inf |-> FALSE, v |-> x]
  ELSE Nearest(Normalized(Scale(x, Exponent(x)), Exponent(x)))

\* the two decimals of n significant digits around a decimal x of more
\* digits, the nearer one first
Around(x, n) ==
  LET kept == SubSeq(x.d, 1, n)
      rest == SubSeq(x.d, n + 1, Len(x.d))
      up == \/ rest[1] > 5
            \/ rest[1] = 5 /\ \E i \in 2..Len(rest) : rest[i] # 0
            \/ rest[1] = 5 /\ kept[n] % 2 = 1
      e == Len(x.d) - n - x.s
      value(digits) ==
        IF e >= 0 THEN Decimal(digits \o [i \in 1..e |-> 0], 0)
        ELSE Decimal(digits, 0 - e)
  IN  IF up THEN <<value(IncNat(kept)), value(kept)>>
      ELSE <<value(kept), value(IncNat(kept))>>

\* some decimal of n significant digits has the double x > 0 as its nearest
\* double
Fits(x, n) ==
  \/ n >= Len(x.d)
  \/ \E i \in 1..2 : ToDouble(Around(x, n)[i]).v = x

\* the least n in lo..hi with Fits(x, n), which holds for hi: a decimal of
\* n digits is one of n + 1 digits, so Fits is monotone in n
RECURSIVE FewestDigits(_, _, _)
FewestDigits(x, lo, hi) ==
  IF lo >= hi THEN hi
  ELSE IF Fits(x, (lo + hi) \div 2)
  THEN FewestDigits(x, lo, (lo + hi) \div 2)
  ELSE FewestDigits(x, (lo + hi) \div 2 + 1, hi)

\* the one of two decimals, the first if it can be, that has x as its
\* nearest double
Nearer(x, pair) == pair[IF ToDouble(pair[1]).v = x THEN 1 ELSE 2]

\* the decimal of n significant digits that is nearest to the double x > 0
\* among those that have x as their nearest double
WithDigits(x, n) == IF n >= Len(x.d) THEN x ELSE Nearer(x, Around(x, n))

\* the decimal of the fewest significant digits whose nearest double is the
\* double x > 0, the nearest to x of those: the digits Number.prototype
\* .toString gives, and 17 digits tell any two doubles apart. A decimal of
\* at most 15 digits that is a double is that decimal.
Shortest(x) ==
  IF Len(x.d) <= 15 THEN x ELSE WithDigits(x, FewestDigits(x, 1, 17))

----------------------------------------------------------------------------
(* Number()                                                                 *)

\* a JavaScript number: NaN, an infinity, or a finite double. A finite double
\* is given by its sign and by the decimal digits before and after the
\* point that Number.prototype.toString prints for it (int is empty for a
\* value below 1, frac is empty for an integer; -0 is neg with no digits)
NaN == [nan |-> TRUE, inf |-> FALSE, neg |-> FALSE, int |-> <<>>, frac |-> <<>>]

Infinite(neg) ==
  [nan |-> FALSE, inf |-> TRUE, neg |-> neg, int |-> <<>>, frac |-> <<>>]

Finite(neg, x) ==
  [nan |-> FALSE, inf |-> FALSE, neg |-> neg,
   int |-> DigitChars(IntDigits(x)), frac |-> DigitChars(FracDigits(x))]

\* the number with a sign that a double r is
Signed(neg, r) == IF r.inf THEN Infinite(neg) ELSE Finite(neg, Shortest(r.v))

\* what a string says as a numeric literal: nothing (nan), an infinity, or
\* the decimal x with a sign
NoLiteral == [nan |-> TRUE, inf |-> FALSE, neg |-> FALSE, x |-> Zero]

FiniteLiteral(neg, x) == [nan |-> FALSE, inf |-> FALSE, neg |-> neg, x |-> x]

\* the position of the first character of s that is in set, 0 when none is
FirstIn(s, set) ==
  LET at == {i \in 1..Len(s) : s[i] \in set}
  IN  IF at = {} THEN 0 ELSE Least(at)

StripLeadingZeros(s) ==
  LET nz == {i \in 1..Len(s) : s[i] # "0"}
  IN  IF nz = {} THEN <<>> ELSE SubSeq(s, Least(nz), Len(s))

\* the value of the digits of an exponent, cut at a million
ExponentValue(s) ==
  IF Len(StripLeadingZeros(s)) > 6 THEN 1000000
  ELSE DecimalValue(StripLeadingZeros(s))

\* the digits divided by ten to the power s, which may be below 0
Shifted(digits, s) ==
  IF s <= 0 THEN Decimal(digits \o [i \in 1..(0 - s) |-> 0], 0)
  ELSE Decimal(digits, s)

\* the digits int.frac times ten to the power e: beyond every double it is
\* an infinity and 0 below every double
Scaled(neg, int, frac, e) ==
  LET digits == DigitValues(StripLeadingZeros(int \o frac))
      e10 == Len(digits) - Len(frac) + e
  IN  IF digits = <<>> \/ e10 < -324 THEN FiniteLiteral(neg, Zero)
      ELSE IF e10 > 309
      THEN [nan |-> FALSE, inf |-> TRUE, neg |-> neg, x |-> Zero]
      ELSE FiniteLiteral(neg, Shifted(digits, Len(frac) - e))

\* an unsigned decimal literal: Infinity, or digits with an optional point
\* and an optional exponent (1, 1.5, 1., .5, 1e2, 1.5E-1)
UnsignedDecimal(neg, u) ==
  LET ePos == FirstIn(u, {"e", "E"})
      mantissa == IF ePos = 0 THEN u ELSE SubSeq(u, 1, ePos - 1)
      exponent == IF ePos = 0 THEN <<>> ELSE SubSeq(u, ePos + 1, Len(u))
      expDigits == IF exponent # <<>> /\ Head(exponent) \in {"+", "-"}
                   THEN Tail(exponent) ELSE exponent
      e == IF ePos = 0 THEN 0
           ELSE IF Head(exponent) = "-" THEN 0 - ExponentValue(expDigits)
           ELSE ExponentValue(expDigits)
      dot == FirstIn(mantissa, {"."})
      int == IF dot = 0 THEN mantissa ELSE SubSeq(mantissa, 1, dot - 1)
      frac == IF dot = 0 THEN <<>>
              ELSE SubSeq(mantissa, dot + 1, Len(mantissa))
  IN  IF u = <<"I", "n", "f", "i", "n", "i", "t", "y">>
      THEN [nan |-> FALSE, inf |-> TRUE, neg |-> neg, x |-> Zero]
      ELSE IF /\ ePos # 0 => AllDigits(expDigits)
              /\ AllDigits(int \o frac)
      THEN Scaled(neg, int, frac, e)
      ELSE NoLiteral

\* the value of the digits s of a literal of 2^bits as radix
RECURSIVE RadixNat(_, _)
RadixNat(s, bits) ==
  IF Len(s) = 1
  THEN LET v == RadixDigitValue(s[1])
       IN  IF v = 0 THEN <<>> ELSE IF v < 10 THEN <<v>> ELSE <<1, v - 10>>
  ELSE LET half == Len(s) \div 2
           front == RadixNat(SubSeq(s, 1, half), bits)
           back == RadixNat(SubSeq(s, half + 1, Len(s)), bits)
       IN  AddNat(Scale(Decimal(front, 0), bits * (Len(s) - half)).d, back)

\* the digits after 0x, 0o or 0b
RadixLiteral(body, bits) ==
  IF body # <<>> /\ \A i \in 1..Len(body) : body[i] \in RadixDigits(bits)
  THEN FiniteLiteral(FALSE, Decimal(RadixNat(body, bits), 0))
  ELSE NoLiteral

\* the bits of a digit after 0x, 0o or 0b, 0 for another string
RadixBits(t) ==
  IF Len(t) >= 2 /\ t[1] = "0"
  THEN CASE t[2] \in {"x", "X"} -> 4
         [] t[2] \in {"o", "O"} -> 3
         [] t[2] \in {"b", "B"} -> 1
         [] OTHER -> 0
  ELSE 0

\* a string without white space around it as a numeric literal: the empty
\* string is 0; 0x, 0o and 0b literals take no sign; a decimal literal takes
\* one sign
Literal(t) ==
  IF t = <<>> THEN FiniteLiteral(FALSE, Zero)
  ELSE IF RadixBits(t) # 0 THEN RadixLiteral(SubSeq(t, 3, Len(t)), RadixBits(t))
  ELSE UnsignedDecimal(Head(t) = "-",
                       IF Head(t) \in {"+", "-"} THEN Tail(t) ELSE t)

\* the number a literal is: the double nearest to its decimal
LiteralNumber(p) ==
  IF p.nan THEN NaN
  ELSE IF p.inf THEN Infinite(p.neg)
  ELSE Signed(p.neg, ToDouble(p.x))

\* Number(x) for a string x: white space around it is dropped, and a string
\* that is no numeric literal is NaN
NumberOf(s) == LiteralNumber(Literal(trim(s)))

\* Number(x) is NaN
IsNaN(s) == NumberOf(s).nan

\* x || fallback for a form field: undefined and "" are falsy
OrElse(x, fallback) == IF x = undefined \/ x = <<>> THEN fallback ELSE x

----------------------------------------------------------------------------
(* bcryptjs                                                                 *)

\* bcrypt.hash(password, 10): a one-way hash, never the plaintext itself
BcryptHash(password) == [alg |-> "bcrypt", cost |-> 10, of |-> password]

\* bcrypt.compare(password, hash)
BcryptCompare(password, hash) == hash = BcryptHash(password)

----------------------------------------------------------------------------
(* Responses                                                                *)

RedirectLogin == "redirect:/login"
RedirectInventory == "redirect:/inventory"
InvalidAccessToken == "Token de acesso invalido."
InvalidCredentials == "Credenciais invalidas"
DuplicateIdentity == "Email ja cadastrado."
GenericError == "Erro."
ServerError == "500"            \* an exception that reaches Express
LoginPage == "page:Login"
RegisterPage == "page:Cadastro"
InventoryPage == "page:Estoque"

----------------------------------------------------------------------------
(* express-session with MemoryStore, resave: false, saveUninitialized:      *)
(* false, rolling unset, cookie.maxAge one hour                             *)

\* cookie: { maxAge: 1000 * 60 * 60 }
MaxAge == 1000 * 60 * 60

NoCookie == 0                    \* the request carries no session cookie
NoSid == 0                       \* the request's session was generated, not loaded

NoUser == [id |-> 0, email |-> undefined]       \* req.session.user is not set

FlashAbsent == "absent"                          \* req.session.flash is not set
FlashNull == "null"                              \* req.session.flash = null
FlashRegistered == "Cadastro realizado. Faca login."

\* a session as store.generate makes it
EmptySession == [user |-> NoUser, flash |-> FlashAbsent]

\* req.session after req.session.destroy()
Destroyed == [user |-> NoUser, flash |-> "destroyed"]

Remove(f, k) == [x \in DOMAIN f \ {k} |-> f[x]]

Put(f, k, v) == [x \in DOMAIN f \cup {k} |-> IF x = k THEN v ELSE f[x]]

\* MemoryStore getSession: the stored session, unless it has expired
Found(st, sid) == sid \in DOMAIN st /\ st[sid].expires > now

\* MemoryStore getSession deletes an expired session when it is asked for
Purge(st, sid) ==
  IF sid \in DOMAIN st /\ st[sid].expires <= now THEN Remove(st, sid) ELSE st

\* the session middleware before the handler: store.get, then inflate or
\* generate. orig is the data behind originalHash and savedHash.
OpenSession(cookie) ==
  IF Found(store, cookie)
  THEN [cookieId |-> cookie, sid |-> cookie,
        sess |-> [user |-> store[cookie].user, flash |-> store[cookie].flash],
        orig |-> [user |-> store[cookie].user, flash |-> store[cookie].flash]]
  ELSE [cookieId |-> cookie, sid |-> NoSid,
        sess |-> EmptySession, orig |-> EmptySession]

\* shouldSave: the session data differ from what was loaded or generated
ShouldSave(ctx, sess) == sess # ctx.orig

\* shouldTouch: the session was loaded from the cookie's id and is not saved
ShouldTouch(ctx, sess) == ctx.sid # NoSid /\ ~ShouldSave(ctx, sess)

\* the id under which the request's session is saved: a generated session
\* gets an id no session had before
SessionId(ctx) == IF ctx.sid = NoSid THEN sidSeq + 1 ELSE ctx.sid

\* Session.touch: cookie.expires = Date.now() + originalMaxAge
TouchedExpires == now + MaxAge

\* the session middleware at res.end on the store st: nothing for a destroyed
\* session, store.set for a modified one, store.touch for a loaded one
CloseSession(ctx, sess, st) ==
  IF sess = Destroyed THEN st
  ELSE IF ShouldSave(ctx, sess)
  THEN Put(st, SessionId(ctx),
           [user |-> sess.user, flash |-> sess.flash, expires |-> TouchedExpires])
  ELSE IF ShouldTouch(ctx, sess)
  THEN IF Found(st, ctx.sid)
       THEN [st EXCEPT ![ctx.sid].expires = TouchedExpires]
       ELSE Purge(st, ctx.sid)
  ELSE st

\* a new session id is handed out when a generated session is saved
NewSession(ctx, sess) ==
  sess # Destroyed /\ ShouldSave(ctx, sess) /\ ctx.sid = NoSid

\* a bug: requireAuth asks for a stored session, not for its user
IsAuthenticatedAnySession(ctx) == ctx.sid # NoSid

\* requireAuth: req.session.user is set
IsAuthenticated(ctx) == ctx.sess.user # NoUser

----------------------------------------------------------------------------
(* The database                                                             *)

\* seed.run(...): the three rows inserted into an empty products table. The
\* value in the quantity column of a row is quantity + 0.frac, or an
\* infinity of sign inf, where quantity is the floor of the value and frac
\* the decimal digits of the rest (1.5 is quantity 1 and frac 5, -1.25 is
\* quantity -2 and frac 75); an integer is stored as an INTEGER (frac empty,
\* inf 0) and every other value as the REAL, a double, it is.
SeedProducts ==
  1 :> [name |-> <<"T", "i", "n", "t", "o", " ",
                   "R", "e", "s", "e", "r", "v", "a">>,
        quantity |-> 12, frac |-> <<>>, inf |-> 0] @@
  2 :> [name |-> <<"B", "r", "a", "n", "c", "o", " ", "S", "e", "c", "o">>,
        quantity |-> 8, frac |-> <<>>, inf |-> 0] @@
  3 :> [name |-> <<"R", "o", "s", "é", " ", "S", "u", "a", "v", "e">>,
        quantity |-> 5, frac |-> <<>>, inf |-> 0]

\* the three seed.run(...) on a table whose AUTOINCREMENT sequence is at seq:
\* the rows get the next three ids
SeedRows(seq) == [id \in (seq + 1)..(seq + 3) |-> SeedProducts[id - seq]]

\* SELECT COUNT(*) AS c FROM products ... .c > 0
HasProducts == DOMAIN products # {}

\* SELECT * FROM users WHERE email = ?
UsersByEmail(email) == {i \in 1..Len(users) : users[i].email = email}

\* a bug: the email column has no UNIQUE constraint
UniqueViolationNever(email) == FALSE

\* INSERT INTO users fails on the UNIQUE constraint of users.email
UniqueViolation(email) == UsersByEmail(email) # {}

\* INSERT INTO users (email, password_hash) VALUES (?, ?)
InsertUser(email, hash) ==
  Append(users, [id |-> Len(users) + 1, email |-> email, password_hash |-> hash])

\* SELECT * FROM products ORDER BY id
RECURSIVE RowsFrom(_)
RowsFrom(id) ==
  IF id > productSeq THEN <<>>
  ELSE IF id \in DOMAIN products
  THEN <<[id |-> id, name |-> products[id].name,
          quantity |-> products[id].quantity, frac |-> products[id].frac,
          inf |-> products[id].inf]>> \o RowsFrom(id + 1)
  ELSE RowsFrom(id + 1)

SelectProducts == RowsFrom(1)

\* the digits of a natural number
RECURSIVE NatChars(_)
NatChars(v) ==
  IF v = 0 THEN <<>> ELSE NatChars(v \div 10) \o <<DigitChar(v % 10)>>

\* the digits of 1 - 0.f for decimal digits f that end in no zero
Complement(f) ==
  SubSeq([i \in 1..Len(f) |->
            DigitChar(IF i = Len(f) THEN 10 - DigitValue(f[i])
                      ELSE 9 - DigitValue(f[i]))],
         1, Len(f))

\* the quantity column that holds a number which is not NaN: the INTEGER
\* affinity of the column makes an INTEGER of a double that is an integer,
\* -0 included, and keeps every other double as a REAL
Stored(n) ==
  CASE n.inf -> [quantity |-> 0, frac |-> <<>>,
                 inf |-> IF n.neg THEN -1 ELSE 1]
    [] ~n.inf /\ ~n.neg ->
         [quantity |-> DecimalValue(n.int), frac |-> n.frac, inf |-> 0]
    [] ~n.inf /\ n.neg /\ n.frac = <<>> ->
         [quantity |-> 0 - DecimalValue(n.int), frac |-> <<>>, inf |-> 0]
    [] OTHER ->
         [quantity |-> 0 - DecimalValue(n.int) - 1,
          frac |-> Complement(n.frac), inf |-> 0]

\* the number a quantity column holds
StoredNumber(row) ==
  CASE row.inf # 0 -> Infinite(row.inf < 0)
    [] row.inf = 0 /\ row.quantity >= 0 ->
         [nan |-> FALSE, inf |-> FALSE, neg |-> FALSE,
          int |-> NatChars(row.quantity), frac |-> row.frac]
    [] row.inf = 0 /\ row.quantity < 0 /\ row.frac = <<>> ->
         [nan |-> FALSE, inf |-> FALSE, neg |-> TRUE,
          int |-> NatChars(0 - row.quantity), frac |-> <<>>]
    [] OTHER ->
         [nan |-> FALSE, inf |-> FALSE, neg |-> TRUE,
          int |-> NatChars(0 - row.quantity - 1),
          frac |-> Complement(row.frac)]

\* the model keeps the integer part of a stored quantity as an integer of
\* its own: a quantity of more digits is not inserted
Storable(n) == n.inf \/ Len(n.int) <= MaxStoredDigits

\* the row with a name and the quantity column f
Row(name, f) ==
  [name |-> name, quantity |-> f.quantity, frac |-> f.frac, inf |-> f.inf]

\* INSERT INTO products (name, quantity) VALUES (?, ?) with a number that
\* is not NaN
InsertProduct(name, quantity) ==
  Put(products, productSeq + 1, Row(name, Stored(quantity)))

\* x + 1 or -x + 1 for a decimal x >= 0, as a decimal with a sign: x + 1,
\* -(x - 1) for x >= 1, and 1 - x for 0 < x < 1, taken digit by digit
SumOne(neg, x) ==
  CASE x.d = <<>> \/ ~neg ->
         FiniteLiteral(FALSE,
                       Decimal(IncNat(IntDigits(x)) \o FracDigits(x), x.s))
    [] x.d # <<>> /\ neg /\ IntDigits(x) # <<>> ->
         FiniteLiteral(
           Decimal(DecNat(IntDigits(x)) \o FracDigits(x), x.s).d # <<>>,
           Decimal(DecNat(IntDigits(x)) \o FracDigits(x), x.s))
    [] OTHER ->
         FiniteLiteral(FALSE,
                       Decimal(SubSeq([i \in 1..x.s |->
                                         IF i = x.s THEN 10 - FracDigits(x)[i]
                                         ELSE 9 - FracDigits(x)[i]],
                                      1, x.s),
                               x.s))

\* n + 1 for a finite number n: the double nearest to the sum of 1 and the
\* double n is, taken as the decimal it is exactly
PlusOne(n) ==
  LiteralNumber(
    SumOne(n.neg,
           ToDouble(Decimal(DigitValues(n.int \o n.frac), Len(n.frac))).v))

\* -n, where 0 is the negative of 0
Negative(n) ==
  [n EXCEPT !.neg = IF n.int = <<>> /\ n.frac = <<>> /\ ~n.inf THEN FALSE
                    ELSE ~@]

\* n - 1 for a finite number n: the double nearest to the difference, which
\* is -(-n + 1)
MinusOne(n) == Negative(PlusOne([n EXCEPT !.neg = ~@]))

\* MAX(n, 0) as the quantity column holds it
StoredFloored(n) ==
  IF n.neg THEN [quantity |-> 0, frac |-> <<>>, inf |-> 0] ELSE Stored(n)

\* SET quantity = quantity + 1
IncrQuantity(q) == q + 1

\* a bug: the decrement has no floor
DecrQuantityNoFloor(q) == q - 1

\* SET quantity = MAX(quantity - 1, 0)
DecrQuantity(q) == Max(q - 1, 0)

\* a bug: the increment is a read in one request and a write in a later
\* one: the row gets one more than the quantity the request before had read
UpdateIncrStale(id) ==
  IF id \in DOMAIN products
  THEN [products EXCEPT ![id].quantity =
          (IF resp.id = id /\ resp.found THEN resp.was ELSE @) + 1]
  ELSE products

\* UPDATE products SET quantity = quantity + 1 WHERE id = ?: an INTEGER
\* gets one more, an infinity stays what it is, and a REAL gets the double
\* nearest to the sum, stored as an INTEGER when it is an integer
UpdateIncr(id) ==
  CASE id \notin DOMAIN products -> products
    [] id \in DOMAIN products /\ products[id].inf # 0 -> products
    [] id \in DOMAIN products /\ products[id].inf = 0
         /\ products[id].frac = <<>> ->
         [products EXCEPT ![id].quantity = IncrQuantity(@)]
    [] OTHER ->
         [products EXCEPT
            ![id] = Row(@.name, Stored(PlusOne(StoredNumber(@))))]

\* UPDATE products SET quantity = MAX(quantity - 1, 0) WHERE id = ?: an
\* INTEGER gets one less and not less than 0, the positive infinity stays,
\* the negative infinity becomes the integer 0, and a REAL gets the double
\* nearest to the difference, or the integer 0 when that is below 0
UpdateDecr(id) ==
  CASE id \notin DOMAIN products -> products
    [] id \in DOMAIN products /\ products[id].inf = 1 -> products
    [] id \in DOMAIN products /\ products[id].inf = -1 ->
         [products EXCEPT ![id].quantity = 0, ![id].inf = 0]
    [] id \in DOMAIN products /\ products[id].inf = 0
         /\ products[id].frac = <<>> ->
         [products EXCEPT ![id].quantity = DecrQuantity(@)]
    [] OTHER ->
         [products EXCEPT
            ![id] = Row(@.name, StoredFloored(MinusOne(StoredNumber(@))))]

\* a bug: the delete takes every row from the id on (WHERE id >= ?)
DeleteProductFrom(id) == [x \in {y \in DOMAIN products : y < id} |-> products[x]]

\* DELETE FROM products WHERE id = ?
DeleteProduct(id) ==
  IF id \in DOMAIN products THEN Remove(products, id) ELSE products

----------------------------------------------------------------------------
(* The last request answered                                                *)

NoData == <<>>

NoRequest ==
  [op |-> "none", cookie |-> NoCookie, email |-> undefined,
   password |-> undefined, accessToken |-> undefined, id |-> 0,
   name |-> undefined, quantity |-> undefined, outcome |-> "none",
   data |-> NoData, found |-> FALSE, was |-> 0, frac |-> <<>>,
   prev |-> "none", before |-> 0, seen |-> 0]

\* history kept with the last request: whether the statement with
\* WHERE id = ? found a row, and the quantity of that row before it ran (in
\* was, with the digits after its point in frac)
Found0(id) == id \in DOMAIN products

Was(id) == IF id \in DOMAIN products THEN products[id].quantity ELSE 0

\* history: the request before this one was an increment or a decrement that
\* found row id; its kind, and the quantity of the row before it ran
Prev(id) ==
  IF resp.op \in {"incr", "decr"} /\ resp.id = id /\ resp.found
  THEN resp.op ELSE "none"

Before(id) == IF Prev(id) = "none" THEN 0 ELSE resp.was

----------------------------------------------------------------------------
(* Start of the process                                                     *)

Init ==
  /\ expectedToken \in {undefined, <<>>, <<"t">>}
  /\ users = <<>>
  /\ products = SeedProducts
  /\ productSeq = 3
  /\ seedings = 1
  /\ store = <<>>
  /\ issued = <<>>
  /\ loggedOut = {}
  /\ sidSeq = 0
  /\ now = 0
  /\ pending = EmptyBag
  /\ resp = NoRequest

\* a handler that answers without suspending: the session middleware runs
\* around it on the store as store.get left it
Finish(cookie, ctx, sess) ==
  /\ NewSession(ctx, sess) => sidSeq < MaxSessions
  /\ store' = CloseSession(ctx, sess, Purge(store, cookie))
  /\ sidSeq' = IF NewSession(ctx, sess) THEN sidSeq + 1 ELSE sidSeq

\* a handler resumed after an await: the store is the store of that moment
Resume(ctx, sess) ==
  /\ NewSession(ctx, sess) => sidSeq < MaxSessions
  /\ store' = CloseSession(ctx, sess, store)
  /\ sidSeq' = IF NewSession(ctx, sess) THEN sidSeq + 1 ELSE sidSeq

----------------------------------------------------------------------------
(* Inventory routes, all behind requireAuth                                 *)

\* GET /inventory
View(cookie) ==
  LET ctx == OpenSession(cookie)
      ok == IsAuthenticated(ctx)
  IN  /\ Finish(cookie, ctx, ctx.sess)
      /\ resp' = [NoRequest EXCEPT
                    !.op = "view", !.cookie = cookie,
                    !.outcome = IF ok THEN InventoryPage ELSE RedirectLogin,
                    !.data = IF ok THEN SelectProducts ELSE NoData]
      /\ UNCHANGED <<expectedToken, seedings, users, products, productSeq,
                     issued, loggedOut, now, pending>>

\* POST /inventory/add: req.body.name.trim() throws when name is absent, and
\* a NaN quantity is bound as NULL, which the NOT NULL column refuses
AddFails(name, quantity) ==
  \/ name = undefined
  \/ (OrElse(quantity, <<>>) # <<>> /\ IsNaN(quantity))

\* Number(req.body.quantity || 0)
AddQuantity(quantity) ==
  IF OrElse(quantity, <<>>) = <<>> THEN Finite(FALSE, Zero)
  ELSE NumberOf(quantity)

Add(cookie, name, quantity) ==
  LET ctx == OpenSession(cookie)
      ok == IsAuthenticated(ctx)
      inserts == ok /\ ~AddFails(name, quantity)
  IN  /\ inserts => (productSeq < MaxProducts
                      /\ Storable(AddQuantity(quantity)))
      /\ Finish(cookie, ctx, ctx.sess)
      /\ products' = IF inserts
                     THEN InsertProduct(trim(name), AddQuantity(quantity))
                     ELSE products
      /\ productSeq' = IF inserts THEN productSeq + 1 ELSE productSeq
      /\ resp' = [NoRequest EXCEPT
                    !.op = "add", !.cookie = cookie,
                    !.name = name, !.quantity = quantity,
                    !.id = IF inserts THEN productSeq + 1 ELSE 0,
                    !.outcome = IF ~ok THEN RedirectLogin
                                ELSE IF inserts THEN RedirectInventory
                                ELSE ServerError]
      /\ UNCHANGED <<expectedToken, seedings, users, issued, loggedOut, now,
                     pending>>

\* POST /inventory/:id/incr
Incr(cookie, id) ==
  LET ctx == OpenSession(cookie)
      ok == IsAuthenticated(ctx)
  IN  /\ (ok /\ id \in DOMAIN products) => products[id].quantity < MaxQuantity
      /\ Finish(cookie, ctx, ctx.sess)
      /\ products' = IF ok THEN UpdateIncr(id) ELSE products
      /\ resp' = [NoRequest EXCEPT
                    !.op = "incr", !.cookie = cookie, !.id = id,
                    !.found = ok /\ Found0(id),
                    !.was = IF ok THEN Was(id) ELSE 0,
                    !.frac = IF ok /\ Found0(id) THEN products[id].frac
                             ELSE <<>>,
                    !.prev = IF ok THEN Prev(id) ELSE "none",
                    !.before = IF ok THEN Before(id) ELSE 0,
                    !.outcome = IF ok THEN RedirectInventory ELSE RedirectLogin]
      /\ UNCHANGED <<expectedToken, seedings, users, productSeq, issued,
                     loggedOut, now, pending>>

\* POST /inventory/:id/decr
Decr(cookie, id) ==
  LET ctx == OpenSession(cookie)
      ok == IsAuthenticated(ctx)
  IN  /\ Finish(cookie, ctx, ctx.sess)
      /\ products' = IF ok THEN UpdateDecr(id) ELSE products
      /\ resp' = [NoRequest EXCEPT
                    !.op = "decr", !.cookie = cookie, !.id = id,
                    !.found = ok /\ Found0(id),
                    !.was = IF ok THEN Was(id) ELSE 0,
                    !.frac = IF ok /\ Found0(id) THEN products[id].frac
                             ELSE <<>>,
                    !.prev = IF ok THEN Prev(id) ELSE "none",
                    !.before = IF ok THEN Before(id) ELSE 0,
                    !.outcome = IF ok THEN RedirectInventory ELSE RedirectLogin]
      /\ UNCHANGED <<expectedToken, seedings, users, productSeq, issued,
                     loggedOut, now, pending>>

\* POST /inventory/:id/delete
Delete(cookie, id) ==
  LET ctx == OpenSession(cookie)
      ok == IsAuthenticated(ctx)
  IN  /\ Finish(cookie, ctx, ctx.sess)
      /\ products' = IF ok THEN DeleteProduct(id) ELSE products
      /\ resp' = [NoRequest EXCEPT
                    !.op = "delete", !.cookie = cookie, !.id = id,
                    !.found = ok /\ Found0(id),
                    !.was = IF ok THEN Was(id) ELSE 0,
                    !.frac = IF ok /\ Found0(id) THEN products[id].frac
                             ELSE <<>>,
                    !.outcome = IF ok THEN RedirectInventory ELSE RedirectLogin]
      /\ UNCHANGED <<expectedToken, seedings, users, productSeq, issued,
                     loggedOut, now, pending>>

----------------------------------------------------------------------------
(* Pages                                                                    *)

\* GET /
Root(cookie) ==
  LET ctx == OpenSession(cookie)
  IN  /\ Finish(cookie, ctx, ctx.sess)
      /\ resp' = [NoRequest EXCEPT
                    !.op = "root", !.cookie = cookie,
                    !.outcome = IF IsAuthenticated(ctx) THEN RedirectInventory
                                ELSE RedirectLogin]
      /\ UNCHANGED <<expectedToken, seedings, users, products, productSeq,
                     issued, loggedOut, now, pending>>

\* GET /register
GetRegister(cookie) ==
  LET ctx == OpenSession(cookie)
  IN  /\ Finish(cookie, ctx, ctx.sess)
      /\ resp' = [NoRequest EXCEPT
                    !.op = "getRegister", !.cookie = cookie,
                    !.outcome = RegisterPage]
      /\ UNCHANGED <<expectedToken, seedings, users, products, productSeq,
                     issued, loggedOut, now, pending>>

\* GET /login: shows req.session.flash and sets it to null
GetLogin(cookie) ==
  LET ctx == OpenSession(cookie)
      sess == [ctx.sess EXCEPT !.flash = FlashNull]
  IN  /\ Finish(cookie, ctx, sess)
      /\ resp' = [NoRequest EXCEPT
                    !.op = "getLogin", !.cookie = cookie,
                    !.outcome = LoginPage,
                    !.data = IF ctx.sess.flash \in {FlashAbsent, FlashNull}
                             THEN NoData ELSE <<ctx.sess.flash>>]
      /\ UNCHANGED <<expectedToken, seedings, users, products, productSeq,
                     issued, loggedOut, now, pending>>

----------------------------------------------------------------------------
(* POST /register                                                           *)

\* bcrypt.hash rejects a password that is no string
HashRejects(password) == password = undefined

\* up to the await: the session is loaded and bcrypt.hash(password, 10) is
\* started; the handler returns to the event loop whether the hash will be
\* computed or rejected. seen is history: the number of users stored when
\* the request was suspended.
RegisterBegin(cookie, email, password) ==
  LET ctx == OpenSession(cookie)
  IN  /\ store' = Purge(store, cookie)
      /\ pending' = pending (+) SetToBag(
           {[op |-> "register", ctx |-> ctx,
             email |-> email, password |-> password,
             accessToken |-> undefined, row |-> 0,
             seen |-> Len(users)]})
      /\ UNCHANGED <<expectedToken, seedings, users, products, productSeq,
                     issued, loggedOut, sidSeq, now, resp>>

\* the outcome of a register request after the await: the rejected hash is
\* caught first, then email.trim() throws on an absent email, then the
\* UNIQUE constraint refuses a stored email
RegisterOutcome(email, password) ==
  IF HashRejects(password) THEN GenericError
  ELSE IF email = undefined THEN GenericError
  ELSE IF UniqueViolation(NormalizeEmail(email)) THEN DuplicateIdentity
  ELSE RedirectLogin

\* after the await: the insert and the flash message, or the error page of
\* the catch block
RegisterEnd(job) ==
  LET outcome == RegisterOutcome(job.email, job.password)
      inserted == outcome = RedirectLogin
      sess == IF inserted
              THEN [job.ctx.sess EXCEPT !.flash = FlashRegistered]
              ELSE job.ctx.sess
  IN  /\ job.op = "register"
      /\ Resume(job.ctx, sess)
      /\ users' = IF inserted
                  THEN InsertUser(NormalizeEmail(job.email),
                                  BcryptHash(job.password))
                  ELSE users
      /\ pending' = pending (-) SetToBag({job})
      /\ resp' = [NoRequest EXCEPT
                    !.op = "register", !.cookie = job.ctx.cookieId,
                    !.email = job.email, !.password = job.password,
                    !.id = IF inserted THEN Len(users) + 1 ELSE 0,
                    !.seen = job.seen,
                    !.outcome = outcome]
      /\ UNCHANGED <<expectedToken, seedings, products, productSeq, issued,
                     loggedOut, now>>

----------------------------------------------------------------------------
(* POST /login                                                              *)

\* a bug: the token check without !expectedToken
TokenRejectedMismatchOnly(accessToken, expected) == accessToken # expected

\* !expectedToken || accessToken !== expectedToken
TokenRejected(accessToken, expected) ==
  \/ expected = undefined
  \/ expected = <<>>
  \/ accessToken # expected

\* the row of db.prepare("SELECT * FROM users WHERE email = ?").get(...), 0
\* when there is none
LoginRow(email) ==
  LET found == UsersByEmail(NormalizeEmail(OrElse(email, <<>>)))
  IN  IF found = {} THEN 0 ELSE CHOOSE i \in found : TRUE

\* a bug: the user is looked up before the token is checked
LoginCheckUserFirst(email, accessToken) ==
  IF LoginRow(email) = 0 THEN "Credenciais invalidas"
  ELSE IF TokenRejected(accessToken, expectedToken)
  THEN "Token de acesso invalido."
  ELSE "bcrypt.compare"

\* the checks of a login before the await, in the order of the code: the
\* token, then the user
ToCompare == "bcrypt.compare"

LoginCheck(email, accessToken) ==
  IF TokenRejected(accessToken, expectedToken) THEN InvalidAccessToken
  ELSE IF LoginRow(email) = 0 THEN InvalidCredentials
  ELSE ToCompare

\* up to the await: the token, then the user, then bcrypt.compare
LoginBegin(cookie, email, password, accessToken) ==
  LET ctx == OpenSession(cookie)
      check == LoginCheck(email, accessToken)
  IN  IF check # ToCompare
      THEN /\ Finish(cookie, ctx, ctx.sess)
           /\ resp' = [NoRequest EXCEPT
                         !.op = "login", !.cookie = cookie,
                         !.email = email, !.password = password,
                         !.accessToken = accessToken,
                         !.outcome = check]
           /\ UNCHANGED <<expectedToken, seedings, users, products,
                          productSeq, issued, loggedOut, now, pending>>
      ELSE /\ BagCardinality(pending) < MaxPending
           /\ store' = Purge(store, cookie)
           /\ pending' = pending (+) SetToBag(
                {[op |-> "login", ctx |-> ctx,
                  email |-> email, password |-> password,
                  accessToken |-> accessToken, row |-> LoginRow(email),
                  seen |-> 0]})
           /\ UNCHANGED <<expectedToken, seedings, users, products,
                          productSeq, issued, loggedOut, sidSeq, now, resp>>

\* a bug: the promise of bcrypt.compare is not awaited, and is truthy
PasswordOkNotAwaited(password, row) == TRUE

\* bcrypt.compare(password || "", user.password_hash)
PasswordOk(password, row) ==
  BcryptCompare(OrElse(password, <<>>), users[row].password_hash)

\* req.session.user = { id: user.id, email: user.email }
Bind(sess, row) ==
  [sess EXCEPT !.user = [id |-> users[row].id, email |-> users[row].email]]

\* after the await: the password, then the session is bound to the user
LoginEnd(job) ==
  LET ok == PasswordOk(job.password, job.row)
      sess == IF ok THEN Bind(job.ctx.sess, job.row) ELSE job.ctx.sess
  IN  /\ job.op = "login"
      /\ Resume(job.ctx, sess)
      /\ issued' = IF ok THEN Put(issued, SessionId(job.ctx), now) ELSE issued
      /\ loggedOut' = IF ok THEN loggedOut \ {SessionId(job.ctx)} ELSE loggedOut
      /\ pending' = pending (-) SetToBag({job})
      /\ resp' = [NoRequest EXCEPT
                    !.op = "login", !.cookie = job.ctx.cookieId,
                    !.email = job.email, !.password = job.password,
                    !.accessToken = job.accessToken,
                    !.id = IF ok THEN users[job.row].id ELSE 0,
                    !.outcome = IF ok THEN RedirectInventory
                                ELSE InvalidCredentials]
      /\ UNCHANGED <<expectedToken, seedings, users, products, productSeq,
                     now>>

\* POST /logout: req.session.destroy deletes the session from the store
Logout(cookie) ==
  LET ctx == OpenSession(cookie)
  IN  /\ store' = CloseSession(ctx, Destroyed,
                               IF ctx.sid = NoSid THEN Purge(store, cookie)
                               ELSE Remove(store, ctx.sid))
      /\ resp' = [NoRequest EXCEPT
                    !.op = "logout", !.cookie = cookie,
                    !.outcome = RedirectLogin]
      /\ loggedOut' = IF ctx.sid = NoSid THEN loggedOut
                      ELSE loggedOut \cup {ctx.sid}
      /\ UNCHANGED <<expectedToken, seedings, users, products, productSeq,
                     issued, sidSeq, now, pending>>

----------------------------------------------------------------------------
(* The process stops and starts again                                       *)

\* data.db is kept: CREATE TABLE IF NOT EXISTS changes nothing, and the seed
\* rows are inserted when the products table is empty. The MemoryStore of the
\* new process is empty and the requests that were suspended are gone.
Restart ==
  /\ products' = IF HasProducts THEN products ELSE SeedRows(productSeq)
  /\ productSeq' = IF HasProducts THEN productSeq ELSE productSeq + 3
  /\ seedings' = IF HasProducts THEN seedings ELSE seedings + 1
  /\ store' = <<>>
  /\ pending' = EmptyBag
  /\ resp' = [NoRequest EXCEPT !.op = "start", !.found = HasProducts]
  /\ UNCHANGED <<expectedToken, users, issued, loggedOut, sidSeq, now>>

----------------------------------------------------------------------------
(* Time                                                                     *)

\* the clock moves in steps of half the session's maxAge
ClockStep == MaxAge \div 2

Tick ==
  /\ now < MaxTicks * ClockStep
  /\ now' = now + ClockStep
  /\ UNCHANGED <<expectedToken, seedings, users, products, productSeq, store,
                 issued, loggedOut, sidSeq, pending, resp>>

----------------------------------------------------------------------------
(* Requests                                                                 *)

\* the cookie of a request: none, or the id of a session handed out before
Cookies == 0..sidSeq

\* a state the process is in at time MaxAge (it is reached from
\* InitRegistered under SpecSession with three sessions): a/p registered without a cookie
\* at time 0 (session 1, the flash message) and logged in without a cookie
\* (session 2, not used since); session 1 was presented once more half an
\* hour later, and at time MaxAge a/p logged in again without a cookie
\* (session 3)
User1 == [id |-> 1, email |-> <<"a">>]

InitLoggedIn ==
  /\ expectedToken = <<"t">>
  /\ users = <<[id |-> 1, email |-> <<"a">>,
                password_hash |-> BcryptHash(<<"p">>)]>>
  /\ products = SeedProducts
  /\ productSeq = 3
  /\ seedings = 1
  /\ now = MaxAge
  /\ store = 1 :> [user |-> NoUser, flash |-> FlashRegistered,
                   expires |-> MaxAge + MaxAge \div 2] @@
             2 :> [user |-> User1, flash |-> FlashAbsent, expires |-> MaxAge] @@
             3 :> [user |-> User1, flash |-> FlashAbsent,
                   expires |-> 2 * MaxAge]
  /\ issued = 2 :> 0 @@ 3 :> MaxAge
  /\ loggedOut = {}
  /\ sidSeq = 3
  /\ pending = EmptyBag
  /\ resp = NoRequest

\* product ids of requests on the seeded stock: the first seeded row and an
\* id that no row has
StockIds == {1, MaxProducts + 1}

\* the stock: increments and decrements of a seeded row
NextStock ==
  \/ \E c \in Cookies, id \in StockIds : Incr(c, id)
  \/ \E c \in Cookies, id \in StockIds : Decr(c, id)

SpecStock == InitLoggedIn /\ [][NextStock]_vars

\* the cookie of ledger requests: the live session of the logged-in user in
\* InitLoggedIn
LedgerCookies == {3}

\* name and quantity fields of add requests: absent fields, names with
\* spaces, and a decimal, a hexadecimal, a fractional and a negative number
\* and no number
AddInputs ==
  {<<undefined, undefined>>, <<<<" ">>, undefined>>,
   <<<<" ", "\t", "v", "\n">>, undefined>>, <<<<"v">>, <<"\t", "2">>>>,
   <<<<"v">>, <<"0", "x", "3">>>>, <<<<"v">>, <<"1", ".", "5">>>>,
   <<<<"v">>, <<"-", "1">>>>, <<<<"v">>, <<"x">>>>}

\* the ledger: the logged-in user adds rows, decrements them, deletes rows
\* (the last seeded row, every row add can make and an id that no row has)
\* and views the inventory
NextLedger ==
  \/ \E c \in LedgerCookies : View(c)
  \/ \E c \in LedgerCookies, in \in AddInputs : Add(c, in[1], in[2])
  \/ \E c \in LedgerCookies, id \in 4..MaxProducts : Decr(c, id)
  \/ \E c \in LedgerCookies, id \in 3..(MaxProducts + 1) : Delete(c, id)

SpecLedger == InitLoggedIn /\ [][NextLedger]_vars

\* fractions: the logged-in user adds rows with the quantity 0.1 and
\* increments and decrements the first of them
NextFraction ==
  \/ \E c \in LedgerCookies : Add(c, <<"v">>, <<"0", ".", "1">>)
  \/ \E c \in LedgerCookies, id \in {4, MaxProducts + 1} : Incr(c, id)
  \/ \E c \in LedgerCookies, id \in {4, MaxProducts + 1} : Decr(c, id)

SpecFraction == InitLoggedIn /\ [][NextFraction]_vars

\* the gate: every inventory route under every cookie, on the last seeded row
NextGate ==
  \/ \E c \in Cookies : View(c)
  \/ \E c \in Cookies : Add(c, <<"v">>, <<"2">>)
  \/ \E c \in Cookies : Incr(c, 3)
  \/ \E c \in Cookies : Decr(c, 3)
  \/ \E c \in Cookies : Delete(c, 3)

SpecGate == InitLoggedIn /\ [][NextGate]_vars

\* the state at time 0 after a register of a/p without a cookie (it is
\* reached from Init under SpecRace): the user is stored and session 1 holds
\* the flash message
InitRegistered ==
  /\ expectedToken = <<"t">>
  /\ users = <<[id |-> 1, email |-> <<"a">>,
                password_hash |-> BcryptHash(<<"p">>)]>>
  /\ products = SeedProducts
  /\ productSeq = 3
  /\ seedings = 1
  /\ now = 0
  /\ store = 1 :> [user |-> NoUser, flash |-> FlashRegistered,
                   expires |-> MaxAge]
  /\ issued = <<>>
  /\ loggedOut = {}
  /\ sidSeq = 1
  /\ pending = EmptyBag
  /\ resp = NoRequest

\* sessions over time: login, logout and the pages as the clock runs
NextSession ==
  \/ \E c \in Cookies : LoginBegin(c, <<"a">>, <<"p">>, <<"t">>)
  \/ \E job \in BagToSet(pending) : LoginEnd(job)
  \/ \E c \in Cookies : Logout(c)
  \/ \E c \in Cookies : View(c)
  \/ \E c \in Cookies : Root(c)
  \/ \E c \in Cookies : GetRegister(c)
  \/ \E c \in Cookies : GetLogin(c)
  \/ Tick

SpecSession == InitRegistered /\ [][NextSession]_vars

\* email and password fields of register requests: one email in two
\* spellings with two passwords (a small letter and its capital, a capital
\* sigma at the end of the word, white space around it), and absent fields
RegisterInputs ==
  {<<<<"ᲊ", "Σ">>, <<"p">>>>, <<<<"\t", "Ᲊ", "Σ", " ">>, <<"q">>>>,
   <<<<"ᲊ", "Σ">>, undefined>>, <<undefined, <<"p">>>>}

\* email, password and accessToken fields of login requests: a third
\* spelling of the email of RegisterInputs with the first of its passwords,
\* another email (it ends with the small sigma, not with the final one),
\* absent fields, and tokens that are not the configured one
LoginInputs ==
  {<<<<"Ᲊ", "Σ", "\n">>, <<"p">>, <<"t">>>>,
   <<<<"ᲊ", "σ">>, <<"p">>, <<"t">>>>,
   <<undefined, undefined, <<"t">>>>,
   <<<<"ᲊ", "Σ">>, <<"p">>, <<"x">>>>,
   <<<<"ᲊ", "Σ">>, <<"p">>, <<>>>>,
   <<<<"ᲊ", "Σ">>, <<"p">>, undefined>>,
   <<<<"ᲊ", "σ">>, <<"q">>, undefined>>}

\* identities: registrations without a cookie and logins under every cookie,
\* under each configuration of the access token. Up to MaxPending requests
\* are suspended together: a login at bcrypt.compare beside a registration
\* at bcrypt.hash, whichever came first, two logins, or two registrations.
NextAuth ==
  \/ \E in \in RegisterInputs :
       /\ BagCardinality(pending) < MaxPending
       /\ RegisterBegin(NoCookie, in[1], in[2])
  \/ \E job \in BagToSet(pending) : RegisterEnd(job)
  \/ \E c \in Cookies, in \in LoginInputs : LoginBegin(c, in[1], in[2], in[3])
  \/ \E job \in BagToSet(pending) : LoginEnd(job)

SpecAuth == Init /\ [][NextAuth]_vars

\* email and password fields of the register requests of a race: two emails,
\* each in two spellings with two passwords, and a request without a
\* password
RaceInputs ==
  {<<<<"a">>, <<"p">>>>, <<<<"\t", "A", " ">>, <<"q">>>>,
   <<<<"a">>, undefined>>,
   <<<<"Ɓ", "ᲊ", "Σ">>, <<"p">>>>, <<<<" ", "Ɓ", "Ᲊ", "Σ">>, <<"q">>>>}

\* a race: registrations without a cookie that are suspended at bcrypt.hash
\* together and resumed in any order
NextRace ==
  \/ \E in \in RaceInputs :
       /\ BagCardinality(pending) < MaxRacing
       /\ RegisterBegin(NoCookie, in[1], in[2])
  \/ \E job \in BagToSet(pending) : RegisterEnd(job)

SpecRace == Init /\ [][NextRace]_vars

\* logout while other requests of the same session are suspended: the
\* registered user logs in with the stored and with another password,
\* registers a second email, logs out, views the inventory and deletes the
\* last seeded row, all under every cookie
NextLogout ==
  \/ \E c \in Cookies : LoginBegin(c, <<"a">>, <<"p">>, <<"t">>)
  \/ \E c \in Cookies : LoginBegin(c, <<"a">>, <<"q">>, <<"t">>)
  \/ \E job \in BagToSet(pending) : LoginEnd(job)
  \/ \E c \in Cookies :
       /\ BagCardinality(pending) < MaxPending
       /\ RegisterBegin(c, <<"b">>, <<"p">>)
  \/ \E job \in BagToSet(pending) : RegisterEnd(job)
  \/ \E c \in Cookies : Logout(c)
  \/ \E c \in Cookies : View(c)
  \/ \E c \in Cookies : Delete(c, 3)

SpecLogout == InitRegistered /\ [][NextLogout]_vars

\* restarts: the registered user logs in, deletes and adds products, and the
\* process is stopped and started again at any moment
NextBoot ==
  \/ Restart
  \/ \E c \in Cookies : LoginBegin(c, <<"a">>, <<"p">>, <<"t">>)
  \/ \E job \in BagToSet(pending) : LoginEnd(job)
  \/ \E c \in Cookies, id \in 1..productSeq : Delete(c, id)
  \/ \E c \in Cookies : Add(c, <<"v">>, <<"2">>)

SpecBoot == InitRegistered /\ [][NextBoot]_vars

\* every request of every specification above
Next ==
  \/ NextAuth \/ NextSession \/ NextGate \/ NextLedger \/ NextStock
  \/ NextBoot \/ NextRace \/ NextLogout

Spec == Init /\ [][Next]_vars

----------------------------------------------------------------------------
(* What the claims speak of, stated on the state and not through the        *)
(* handlers' own operators                                                  *)

\* cookie c is the id of a stored session that has not expired and is bound
\* to a user
HoldsIdentity(c) ==
  c \in DOMAIN store /\ store[c].expires > now /\ store[c].user # NoUser

\* no session is bound to a user in this step, and no binding changes
NoNewBinding ==
  \A sid \in DOMAIN store' :
    store'[sid].user # NoUser =>
      sid \in DOMAIN store /\ store[sid].user = store'[sid].user

\* every row but row id is as it was
OtherRowsUnchanged(id) ==
  /\ DOMAIN products' \ {id} = DOMAIN products \ {id}
  /\ \A other \in DOMAIN products \ {id} : products'[other] = products[other]

----------------------------------------------------------------------------
(* Claims                                                                   *)

\* the quantity column of the row holds an integer
IsInteger(row) == row.frac = <<>> /\ row.inf = 0

\* C1: in every reachable state every product's quantity is an integer
\* >= 0, whatever add, increment, decrement and delete requests were made.
\* The code stores the quantity of an add request unclamped, so this fails.
QuantityNeverNegative ==
  \A id \in DOMAIN products :
    products[id].quantity \in Nat /\ IsInteger(products[id])

\* C2: a decrement of an existing product with quantity q, on an
\* authenticated session, sets the quantity to max(q - 1, 0), changes no
\* other row and is answered with the redirect to the inventory, also for
\* q = 0.
DecrementFloorsAtZero ==
  [][\A c \in Cookies, id \in DOMAIN products :
       (HoldsIdentity(c) /\ Decr(c, id)) =>
         /\ id \in DOMAIN products'
         /\ products'[id].quantity =
              (IF products[id].quantity >= 1 THEN products[id].quantity - 1
               ELSE 0)
         /\ products'[id].name = products[id].name
         /\ IsInteger(products[id]) => IsInteger(products'[id])
         /\ OtherRowsUnchanged(id)
         /\ resp'.outcome = RedirectInventory]_vars

\* C2 witness: the row seeded with quantity 12 has been decremented down to
\* 0 and then decremented once more, and is at 0
DecrementedAtZero ==
  /\ resp.op = "decr" /\ resp.id = 1 /\ resp.found /\ resp.was = 0
  /\ resp.outcome = RedirectInventory
  /\ products[1].quantity = 0

\* C3: an increment of an existing product with quantity q >= 0 followed at
\* once by a decrement of the same product leaves the quantity at q. The
\* sum and the difference are rounded to doubles, so this fails for a
\* quantity that is no integer, which an add request can store.
IncrementThenDecrementRestores ==
  [][\A c \in Cookies, id \in DOMAIN products :
       (/\ resp.op = "incr" /\ resp.id = id /\ resp.found /\ resp.was >= 0
        /\ HoldsIdentity(c) /\ Decr(c, id)) =>
         /\ id \in DOMAIN products'
         /\ products'[id].quantity = resp.was
         /\ products'[id].frac = resp.frac]_vars

\* the step answers a register request: always after the await, whether
\* bcrypt.hash resolved or rejected
AnswersRegister ==
  /\ resp'.op = "register"
  /\ \E job \in BagToSet(pending) : RegisterEnd(job)

\* the step answers a login request: before the await or after it
AnswersLogin ==
  /\ resp'.op = "login"
  /\ \/ /\ pending' = pending
        /\ LoginBegin(resp'.cookie, resp'.email, resp'.password,
                      resp'.accessToken)
     \/ \E job \in BagToSet(pending) : LoginEnd(job)

\* a user is stored under the trimmed, lower-cased form of the email field
StoredEmail(email) ==
  /\ email # undefined
  /\ \E i \in 1..Len(users) : users[i].email = toLowerCase(trim(email))

\* the email and password fields are those of a stored user
StoredCredentials(email, password) ==
  /\ email # undefined /\ password # undefined
  /\ \E i \in 1..Len(users) :
       /\ users[i].email = toLowerCase(trim(email))
       /\ users[i].password_hash = BcryptHash(password)

\* C4: a register request whose trimmed, lower-cased email is that of a
\* stored user is answered with DuplicateIdentity and leaves the users as
\* they are. The code hashes the password before it looks at the email, so a
\* request without a password is answered with the generic error.
DuplicateEmailRejected ==
  [][(AnswersRegister /\ StoredEmail(resp'.email)) =>
       (resp'.outcome = DuplicateIdentity /\ users' = users)]_vars

\* the access token of the login answered in this step is absent or is not
\* the configured one
BadTokenPresented ==
  resp'.accessToken = undefined \/ resp'.accessToken # expectedToken

\* every session that is bound to a user and has not expired is bound to
\* that user after the step
BindingsKept ==
  \A sid \in DOMAIN store :
    (store[sid].user # NoUser /\ store[sid].expires > now) =>
      sid \in DOMAIN store' /\ store'[sid].user = store[sid].user

\* C5: a login whose access token is absent or is not the configured token
\* is answered with InvalidAccessToken whatever the email and the password
\* are and whatever users are stored, and it binds no session and unbinds
\* none: the session of the request, like every other session, is bound to
\* a user after the request exactly if it was before, and to the same user.
BadTokenRejectedFirst ==
  [][(AnswersLogin /\ BadTokenPresented)
       => (/\ resp'.outcome = InvalidAccessToken
           /\ NoNewBinding
           /\ BindingsKept
           /\ users' = users)]_vars

\* C5 as it is stated: after such a login the session of the request is
\* bound to no user. A session that a login bound before stays bound when
\* a later login with a bad token presents its cookie, so this fails.
BadTokenLeavesSessionUnbound ==
  [][(AnswersLogin /\ BadTokenPresented)
       => (/\ resp'.outcome = InvalidAccessToken
           /\ users' = users
           /\ ~(/\ resp'.cookie \in DOMAIN store'
                /\ store'[resp'.cookie].user # NoUser))]_vars

\* C5 witness: a login with the email and password of a stored user and
\* another token than the configured one was answered with InvalidAccessToken
WrongTokenGoodPassword ==
  /\ resp.op = "login" /\ resp.outcome = InvalidAccessToken
  /\ expectedToken = <<"t">> /\ resp.accessToken = <<"x">>
  /\ StoredCredentials(resp.email, resp.password)

\* C6: while no access token is configured (unset or empty) no session is
\* bound to a user, no login is answered with the redirect to the inventory
\* and no login gets as far as the password comparison.
NoTokenNoLogin ==
  (expectedToken = undefined \/ expectedToken = <<>>) =>
    /\ \A sid \in DOMAIN store : store[sid].user = NoUser
    /\ resp.outcome # RedirectInventory
    /\ \A job \in BagToSet(pending) : job.op # "login"

\* C6 witness: no token is configured and a login with the email and
\* password of a stored user presented that same absent or empty token
NoTokenSamePresented ==
  /\ (expectedToken = undefined \/ expectedToken = <<>>)
  /\ resp.op = "login" /\ resp.accessToken = expectedToken
  /\ StoredCredentials(resp.email, resp.password)
  /\ resp.outcome = InvalidAccessToken

\* the trimmed, lower-cased form of the email fields of the requests, written
\* out: what String.prototype.trim and toLowerCase make of each of them in
\* the code. A field that is not listed is in that form already.
NormalForm(email) ==
  CASE email \in {<<"ᲊ", "Σ">>, <<"\t", "Ᲊ", "Σ", " ">>, <<"Ᲊ", "Σ", "\n">>}
         -> <<"ᲊ", "ς">>
    [] email \in {<<"Ɓ", "ᲊ", "Σ">>, <<" ", "Ɓ", "Ᲊ", "Σ">>}
         -> <<"U+0253", "ᲊ", "ς">>
    [] email = <<"\t", "A", " ">> -> <<"a">>
    [] OTHER -> email

\* a user is stored with this email
KnownEmail(email) ==
  \E i \in 1..Len(users) : users[i].email = NormalForm(email)

\* a user is stored with this email and this password
KnownCredentials(email, password) ==
  \E i \in 1..Len(users) :
    /\ users[i].email = NormalForm(email)
    /\ users[i].password_hash = BcryptHash(password)

\* C7: with the configured token, a login for an email no user has and a
\* login for a stored email with another password than the stored one are
\* both answered with InvalidCredentials, and neither binds a session nor
\* stores a new one; an absent email or password counts as the empty one.
BadCredentialsSameAnswer ==
  [][(/\ AnswersLogin
      /\ expectedToken = <<"t">> /\ resp'.accessToken = expectedToken
      /\ ~KnownCredentials(OrElse(resp'.email, <<>>),
                           OrElse(resp'.password, <<>>)))
       => (/\ resp'.outcome = InvalidCredentials
           /\ NoNewBinding
           /\ DOMAIN store' \subseteq DOMAIN store)]_vars

\* C7 witness: a login with the configured token, another spelling of a
\* stored email and a password that is not the stored one was answered with
\* InvalidCredentials while a registration was suspended, after a login for
\* an email that no user has
WrongPasswordAnswered ==
  /\ resp.op = "login" /\ resp.outcome = InvalidCredentials
  /\ resp.accessToken = expectedToken
  /\ resp.email = <<"Ᲊ", "Σ", "\n">>
  /\ KnownEmail(resp.email)
  /\ ~KnownCredentials(resp.email, resp.password)
  /\ \E job \in BagToSet(pending) : job.op = "register"

\* the step answers an inventory request that carries cookie c
InventoryRequest(c) ==
  /\ resp'.cookie = c
  /\ \/ resp'.op = "view" /\ View(c)
     \/ resp'.op = "add" /\ Add(c, resp'.name, resp'.quantity)
     \/ resp'.op = "incr" /\ Incr(c, resp'.id)
     \/ resp'.op = "decr" /\ Decr(c, resp'.id)
     \/ resp'.op = "delete" /\ Delete(c, resp'.id)

\* C8: an inventory request (view, add, increment, decrement, delete) whose
\* cookie is not that of a live session bound to a user is answered with the
\* redirect to login, leaves the products as they are and returns no rows.
GateRedirectsUnauthenticated ==
  [][\A c \in Cookies :
       (InventoryRequest(c) /\ ~HoldsIdentity(c)) =>
         /\ resp'.outcome = RedirectLogin
         /\ products' = products /\ productSeq' = productSeq
         /\ resp'.data = NoData]_vars

\* C8 witness: a decrement of an existing row that presented the expired
\* session of a logged-in user was redirected to login
ExpiredSessionRedirected ==
  /\ resp.op = "decr" /\ resp.cookie = 2 /\ resp.id \in DOMAIN products
  /\ resp.outcome = RedirectLogin
  /\ 2 \notin DOMAIN store

\* C9: a session bound by a login stops validating one hour after that
\* login: a request for the inventory made then or later is redirected to
\* login. The store moves a session's expiry forward at every request, so a
\* session used within the hour is still valid after it.
ExpiresOneHourAfterLogin ==
  [][\A c \in DOMAIN issued :
       (View(c) /\ now >= issued[c] + MaxAge) =>
         resp'.outcome = RedirectLogin]_vars

\* C10: validated requests do not extend a session: the expiry of a session
\* bound by a login stays at the time of that login plus one hour.
ExpiryFixedAtLogin ==
  \A sid \in DOMAIN store :
    (store[sid].user # NoUser /\ sid \in DOMAIN issued) =>
      store[sid].expires = issued[sid] + MaxAge

\* the answer the ledger of the specification gives for an id no product has;
\* no route of the code sends it
NotFound == "NotFound"

\* C11: an increment or a decrement, on an authenticated session, of an id
\* that no product has fails with NotFound and changes no product. The
\* UPDATE of the code matches no row and the request is answered with the
\* redirect to the inventory, as a successful one is.
AbsentIdNotFound ==
  [][\A c \in Cookies :
       (/\ resp'.op \in {"incr", "decr"} /\ resp'.cookie = c
        /\ resp'.id \notin DOMAIN products
        /\ HoldsIdentity(c)
        /\ (Incr(c, resp'.id) \/ Decr(c, resp'.id))) =>
         (resp'.outcome = NotFound /\ products' = products)]_vars

\* the answer the ledger of the specification gives for a name that is empty
\* after trimming; no route of the code sends it
InvalidInput == "InvalidInput"

\* the name field is a string that is empty once the spaces around it are
\* taken away
EmptyName(name) ==
  name # undefined /\ \A i \in 1..Len(name) : name[i] \in Whitespace

\* the step answers an add request of the logged-in user of the ledger
LedgerAdd ==
  /\ resp'.op = "add"
  /\ \E c \in LedgerCookies :
       HoldsIdentity(c) /\ Add(c, resp'.name, resp'.quantity)

\* C12: an add, on an authenticated session, with a name that is empty after
\* trimming fails with InvalidInput and creates no product: the products
\* table is unchanged. The code inserts a product with the empty name.
EmptyNameRejected ==
  [][(LedgerAdd /\ EmptyName(resp'.name)) =>
       (resp'.outcome = InvalidInput /\ products' = products
        /\ productSeq' = productSeq)]_vars

\* a number the specification speaks of: it is not a number, is negative or
\* is a non-negative integer
SpecifiedNumber(n) == n.nan \/ n.neg \/ (~n.inf /\ n.frac = <<>>)

\* the quantity field of an add request is one the specification speaks of:
\* it is omitted or is read as such a number
SpecifiedQuantity(quantity) ==
  \/ quantity = undefined \/ quantity = <<>>
  \/ SpecifiedNumber(NumberOf(quantity))

\* the quantity the specification gives a new product for such a number: 0
\* when it is not a number or is below 0, and the number otherwise
ClaimedNumber(n) == IF n.nan \/ n.neg THEN 0 ELSE DecimalValue(n.int)

\* the quantity the specification gives a new product for such a field: 0
\* when the field is omitted, and what it gives the number otherwise
ClaimedQuantity(quantity) ==
  IF quantity = undefined \/ quantity = <<>> THEN 0
  ELSE ClaimedNumber(NumberOf(quantity))

\* C13: an add, on an authenticated session, with a name that is not empty
\* after trimming creates exactly one new product, whose quantity is the
\* number supplied when that is a non-negative integer, 0 when the quantity
\* is omitted or is not a number, and 0 when the number is negative. The code
\* creates no product for a quantity that is not a number (the request ends
\* in an error) and stores a negative number as it is.
AddCreatesOneWithQuantity ==
  [][(LedgerAdd /\ resp'.name # undefined /\ ~EmptyName(resp'.name)) =>
       /\ productSeq' \notin DOMAIN products
       /\ DOMAIN products' = DOMAIN products \cup {productSeq'}
       /\ \A id \in DOMAIN products : products'[id] = products[id]
       /\ SpecifiedQuantity(resp'.quantity) =>
            /\ products'[productSeq'].quantity =
                 ClaimedQuantity(resp'.quantity)
            /\ IsInteger(products'[productSeq'])]_vars

\* the step answers a delete request of the logged-in user of the ledger
LedgerDelete ==
  /\ resp'.op = "delete"
  /\ \E c \in LedgerCookies : HoldsIdentity(c) /\ Delete(c, resp'.id)

\* C14: a delete, on an authenticated session, of an id a product has removes
\* that product and leaves every other product as it is; a delete of an id
\* no product has, a repeated delete of the same id included, changes
\* nothing. Both are answered with the redirect to the inventory, without an
\* error.
DeleteRemovesOnlyThatRow ==
  [][LedgerDelete =>
       /\ DOMAIN products' = DOMAIN products \ {resp'.id}
       /\ \A other \in DOMAIN products' : products'[other] = products[other]
       /\ (resp'.id \notin DOMAIN products => products' = products)
       /\ productSeq' = productSeq
       /\ resp'.outcome = RedirectInventory]_vars

\* C14 witness: a product made by an add was deleted and then deleted once
\* more while the seeded products are still there: the second delete found no
\* row and was answered with the redirect to the inventory
DeletedTwice ==
  /\ resp.op = "delete" /\ ~resp.found
  /\ resp.id > 3 /\ resp.id <= productSeq /\ resp.id \notin DOMAIN products
  /\ resp.outcome = RedirectInventory
  /\ {1, 2} \subseteq DOMAIN products

\* the quantities of the products, in the order of their ids
Quantities == [i \in 1..Len(SelectProducts) |-> SelectProducts[i].quantity]

\* C15: the seeding happens once over all starts of the process: a start
\* with an empty products table inserts three products with the quantities
\* 12, 8 and 5 in the order of their ids, a start with products in the table
\* inserts nothing, and whatever ledger requests come between the starts the
\* seed products are inserted at most once. The emptiness test of the code
\* lets a start seed again after every product was deleted.
SeededAtMostOnce ==
  [][(resp'.op = "start" /\ Restart) =>
       /\ (DOMAIN products = {} => Quantities' = <<12, 8, 5>>)
       /\ (DOMAIN products # {} => products' = products)
       /\ seedings' <= 1]_vars

\* session sid is stored and bound to a user
Bound(st, sid) == sid \in DOMAIN st /\ st[sid].user # NoUser

\* C16: a successful login allocates a new session handle: the handle bound
\* to the user is one that nobody held before the login, and a handle handed
\* out before as an unauthenticated session never becomes authenticated. The
\* code binds the user to the session the request came with, so the handle of
\* the flash message of the register, or of a visit of the login page,
\* becomes the authenticated one.
LoginAllocatesNewHandle ==
  [][(((AnswersLogin /\ resp'.outcome = RedirectInventory) =>
         \E new \in DOMAIN store' :
           new > sidSeq /\ store'[new].user.id = resp'.id)
      /\ (\A sid \in 1..sidSeq :
            ~(~Bound(store, sid) /\ Bound(store', sid))))]_vars

\* an increment or a decrement applied to the quantity q, as the
\* specification defines them
Applied(op, q) ==
  IF op = "incr" THEN q + 1 ELSE IF q >= 1 THEN q - 1 ELSE 0

\* C17: increments and decrements of one product, from authenticated
\* sessions and in whatever order the requests are served, lose no update:
\* each request changes the quantity the row has when it is served, so that
\* the quantity after two requests in a row is the second applied to the
\* first applied to the quantity before both, and by induction the final
\* quantity is that of the requests applied one at a time in the order they
\* were served.
NoLostUpdate ==
  [][\A c \in Cookies, id \in DOMAIN products :
       (/\ resp'.op \in {"incr", "decr"} /\ resp'.cookie = c /\ resp'.id = id
        /\ HoldsIdentity(c)
        /\ (Incr(c, id) \/ Decr(c, id))) =>
         /\ id \in DOMAIN products'
         /\ products'[id].quantity = Applied(resp'.op, products[id].quantity)
         /\ IsInteger(products[id]) => IsInteger(products'[id])
         /\ (resp.op \in {"incr", "decr"} /\ resp.id = id /\ resp.found) =>
               products'[id].quantity =
                 Applied(resp'.op, Applied(resp.op, resp.was))
         /\ OtherRowsUnchanged(id)]_vars

\* C17 witness: a row at 0 was decremented and then incremented and is at 1:
\* the order in which the two were served shows in the result
DecrThenIncrAtFloor ==
  /\ resp.op = "incr" /\ resp.prev = "decr" /\ resp.before = 0
  /\ resp.id \in DOMAIN products /\ products[resp.id].quantity = 1

\* C18: however register requests that are suspended at the hash of the
\* password are resumed, no two stored users have the same trimmed,
\* lower-cased email, and of the registrations of one such email that are
\* suspended together exactly one succeeds: a registration that is resumed
\* stores its user and is redirected to login when no user has its email
\* yet, and is answered with DuplicateIdentity and stores nothing when one
\* has, also when that user was stored while it was suspended.
RacingRegistrationsStayUnique ==
  [][(\A i, j \in 1..Len(users') :
        NormalForm(users'[i].email) = NormalForm(users'[j].email) => i = j)
     /\ ((AnswersRegister /\ resp'.email # undefined
          /\ resp'.password # undefined) =>
           IF KnownEmail(resp'.email)
           THEN resp'.outcome = DuplicateIdentity /\ users' = users
           ELSE /\ resp'.outcome = RedirectLogin
                /\ Len(users') = Len(users) + 1
                /\ SubSeq(users', 1, Len(users)) = users
                /\ users'[Len(users')].email =
                     NormalForm(resp'.email))]_vars

\* C18 witness: a registration was answered with DuplicateIdentity because of
\* a user that was stored while it was suspended, under another spelling of
\* the email
LostTheRace ==
  /\ resp.op = "register" /\ resp.outcome = DuplicateIdentity
  /\ resp.email = <<" ", "Ɓ", "Ᲊ", "Σ">>
  /\ \E i \in 1..Len(users) :
       /\ i > resp.seen
       /\ users[i].email = <<"U+0253", "ᲊ", "ς">>
       /\ users[i].password_hash # BcryptHash(resp.password)

\* the user of a session is a stored user, by id and by email
IsStoredUser(user) ==
  \E i \in 1..Len(users) :
    users[i].id = user.id /\ users[i].email = user.email

\* the step answers a login that presented the configured access token and
\* the email and the password of a stored user
RightLoginAnswered ==
  /\ AnswersLogin
  /\ expectedToken # undefined /\ expectedToken # <<>>
  /\ resp'.accessToken = expectedToken
  /\ StoredCredentials(OrElse(resp'.email, <<>>), OrElse(resp'.password, <<>>))

\* C19: a session is bound to a user only if a login on that session was
\* answered before that presented the configured access token, the email of
\* a stored user and the password of that user, and the id and email bound
\* are that user's; a register, a failed login and an inventory request never
\* authenticate a session. In the code a register that was suspended while
\* its session was logged out saves the session again with the user it had,
\* so that request makes an authenticated session of a handle that had none.
OnlyLoginAuthenticates ==
  [][(\A sid \in DOMAIN store' :
        Bound(store', sid) =>
          /\ sid \in DOMAIN issued'
          /\ \E i \in 1..Len(users') :
               /\ users'[i].id = store'[sid].user.id
               /\ users'[i].email = store'[sid].user.email)
     /\ (issued' # issued =>
           /\ RightLoginAnswered
           /\ \E sid \in DOMAIN store' :
                /\ store'[sid].user.id = resp'.id
                /\ store'[sid].user.email =
                     toLowerCase(trim(OrElse(resp'.email, <<>>))))
     /\ (~(RightLoginAnswered /\ resp'.outcome = RedirectInventory) =>
           \A sid \in DOMAIN store' :
             Bound(store', sid) => Bound(store, sid))]_vars

\* C20: once a logout of a session is answered, every inventory request
\* that presents the handle of that session is redirected to login and
\* changes nothing, until a login on that handle is answered with success
\* after the logout; also when a login on the handle was suspended at the
\* comparison of the password while the logout was answered. In the code a
\* register that was suspended during the logout saves the session again,
\* and the handle is served without any login.
LogoutSticks ==
  [][\A c \in loggedOut :
       InventoryRequest(c) =>
         /\ resp'.outcome = RedirectLogin
         /\ products' = products /\ productSeq' = productSeq
         /\ resp'.data = NoData]_vars

====
